---------------------------- MODULE Spec2Model ----------------------------
(***************************************************************************)
(* A model of mapleteller's statement-parsing engine                       *)
(* (src/src/mapleteller/domain/services/pdfprocessor.py and                *)
(* src/src/mapleteller/domain/value_objects.py).                           *)
(*                                                                         *)
(* Text is a sequence of one-character strings; a line of a page keeps its  *)
(* layout, so that a variant cuts its columns from it by position          *)
(* (line[DESC_SLICE], line[CREDIT_SLICE], ...), and the regular            *)
(* expressions of the source are evaluated on those characters by a        *)
(* backtracking matcher.  Python's None is the empty tuple <<>> and a       *)
(* present value x is <<x>>.  A processor object is the record of its       *)
(* attributes.  An exception raised anywhere in PDFProcessor.process is    *)
(* the control state "failed" with the error kept in the variable error.   *)
(* The text of a page is revealed a line at a time, as the loops of        *)
(* process_page reach it.                                                   *)
(***************************************************************************)
EXTENDS Integers, Sequences, FiniteSets, TLC

\* pc: where PDFProcessor.process is; first_page, processor, transactions:
\* its locals; page_number: the page the loop over pdf.pages is at (0 before
\* it); lines, page_transactions: process_page's locals lines (from the line
\* the loop is at) and transactions; n_lines: the lines read so far; stderr:
\* what was printed to sys.stderr; log: the messages given to the logger;
\* error: the exception that left process; result: what process returned.
VARIABLES pc, first_page, processor, transactions, page_number, lines,
          page_transactions, n_lines, stderr, log, error, result

vars == <<pc, first_page, processor, transactions, page_number, lines,
          page_transactions, n_lines, stderr, log, error, result>>

\* ------------------------------------------------------------------ bounds
\* The most pages a document has.
MaxPages == 2
\* The most lines a document's pages hold together.
MaxLines == 5

\* ------------------------------------------------------- Python primitives
None == <<>>
Some(x) == <<x>>
IsNone(o) == o = <<>>
\* bool(o) of an int | None: None and 0 are falsy.
Truthy(o) == o # <<>> /\ o[1] # 0

Upper == {"A","B","C","D","E","F","G","H","I","J","K","L","M",
          "N","O","P","Q","R","S","T","U","V","W","X","Y","Z"}
Lower == {"a","b","c","d","e","f","g","h","i","j","k","l","m",
          "n","o","p","q","r","s","t","u","v","w","x","y","z"}
Digit == {"0","1","2","3","4","5","6","7","8","9"}
\* \s of a regular expression and the characters str.strip() removes
Whitespace == {" ", "\n"}
Punct == {",", ".", "$", "-", "(", ")", "+", "=", "/"}
\* '.' of a regular expression: every character but the line break, which no
\* line holds after text.split('\n').
AnyChar == Upper \cup Lower \cup Digit \cup {" "} \cup Punct

DigitVal == ("0" :> 0) @@ ("1" :> 1) @@ ("2" :> 2) @@ ("3" :> 3) @@ ("4" :> 4) @@
            ("5" :> 5) @@ ("6" :> 6) @@ ("7" :> 7) @@ ("8" :> 8) @@ ("9" :> 9)

LowerOf == ("A" :> "a") @@ ("B" :> "b") @@ ("C" :> "c") @@ ("D" :> "d") @@
           ("E" :> "e") @@ ("F" :> "f") @@ ("G" :> "g") @@ ("H" :> "h") @@
           ("I" :> "i") @@ ("J" :> "j") @@ ("K" :> "k") @@ ("L" :> "l") @@
           ("M" :> "m") @@ ("N" :> "n") @@ ("O" :> "o") @@ ("P" :> "p") @@
           ("Q" :> "q") @@ ("R" :> "r") @@ ("S" :> "s") @@ ("T" :> "t") @@
           ("U" :> "u") @@ ("V" :> "v") @@ ("W" :> "w") @@ ("X" :> "x") @@
           ("Y" :> "y") @@ ("Z" :> "z")

\* str.lower()
lower(s) == [i \in 1..Len(s) |-> IF s[i] \in Upper THEN LowerOf[s[i]] ELSE s[i]]

\* s[a:b] with 0 <= a: the characters at 0-based positions a .. b-1.
Slice(s, a, b) == SubSeq(s, a + 1, IF b < Len(s) THEN b ELSE Len(s))

\* str.replace(c, '') for a single character c.
Without(s, c) == SelectSeq(s, LAMBDA x : x # c)

\* str.strip(): without the leading and trailing whitespace
strip(s) ==
    LET ink == {i \in 1..Len(s) : s[i] \notin Whitespace}
    IN  IF ink = {} THEN <<>>
        ELSE SubSeq(s, CHOOSE i \in ink : \A j \in ink : i <= j,
                       CHOOSE i \in ink : \A j \in ink : j <= i)

\* s.startswith(p) at 1-based position i
MatchesAt(s, p, i) ==
    /\ i + Len(p) - 1 <= Len(s)
    /\ \A k \in 1..Len(p) : s[i + k - 1] = p[k]

\* p in s
Contains(s, p) == \E i \in 1..(Len(s) + 1) : MatchesAt(s, p, i)

\* s.replace(p, '') for a non-empty p: leftmost occurrences, left to right.
RECURSIVE Replace(_, _)
Replace(s, p) ==
    IF s = <<>> THEN <<>>
    ELSE IF MatchesAt(s, p, 1) THEN Replace(SubSeq(s, Len(p) + 1, Len(s)), p)
    ELSE <<Head(s)>> \o Replace(Tail(s), p)

RECURSIVE DigitsValue(_)
DigitsValue(s) ==
    IF s = <<>> THEN 0
    ELSE 10 * DigitsValue(SubSeq(s, 1, Len(s) - 1)) + DigitVal[s[Len(s)]]

IsDigits(s) == s # <<>> /\ \A i \in 1..Len(s) : s[i] \in Digit

\* int(s): Some(n), or None where Python raises ValueError.
int(s) ==
    IF IsDigits(s) THEN Some(DigitsValue(s))
    ELSE IF s # <<>> /\ Head(s) = "-" /\ IsDigits(Tail(s))
         THEN Some(0 - DigitsValue(Tail(s)))
    ELSE IF s # <<>> /\ Head(s) = "+" /\ IsDigits(Tail(s))
         THEN Some(DigitsValue(Tail(s)))
    ELSE None

\* ------------------------------------------------------ regular expressions
\* A pattern is a sequence of items.  A class item [cls, min, max, caps] stands
\* for between min and max characters of the class cls, greedy (max = -1: no
\* upper limit), inside the capture groups caps; a literal item [lit, caps] for
\* a fixed string; an option item [opt] for (...)? and a choice item [alt] for
\* (a|b).
Item(cls, lo, hi) == [cls |-> cls, min |-> lo, max |-> hi, caps |-> {}]
\* the items of p, inside capture group g as well
RECURSIVE Cap(_, _)
Cap(g, p) ==
    [i \in 1..Len(p) |->
        IF "opt" \in DOMAIN p[i] THEN [opt |-> Cap(g, p[i].opt)]
        ELSE IF "alt" \in DOMAIN p[i]
             THEN [alt |-> [j \in 1..Len(p[i].alt) |-> Cap(g, p[i].alt[j])]]
        ELSE [p[i] EXCEPT !.caps = @ \cup {g}]]
\* a literal string
Lit(chars) == <<[lit |-> chars, caps |-> {}]>>
\* (p)?
Opt(p) == <<[opt |-> p]>>
\* (p|q)
Alt(p, q) == <<[alt |-> <<p, q>>]>>
\* \s+ and \s*
Ws == <<Item(Whitespace, 1, -1)>>
Ws0 == <<Item(Whitespace, 0, -1)>>
\* .* and .+ and .
Dots == <<Item(AnyChar, 0, -1)>>
Dots1 == <<Item(AnyChar, 1, -1)>>
Dot == <<Item(AnyChar, 1, 1)>>
\* [A-Z][a-z]{2}
Mon == <<Item(Upper, 1, 1), Item(Lower, 2, 2)>>
\* \d{1,2}
Day == <<Item(Digit, 1, 2)>>
\* \d{4}
Year4 == <<Item(Digit, 4, 4)>>
\* [\d,]+
DigitsCommas == <<Item(Digit \cup {","}, 1, -1)>>

\* The longest run of characters of cls in s from position pos, at most hi
\* (hi = -1: no limit).
Run(s, cls, pos, hi) ==
    LET room == Len(s) - pos + 1
        lim  == IF hi = -1 \/ hi > room THEN room ELSE hi
        stop == {i \in 0..(lim - 1) : s[pos + i] \notin cls}
    IN  IF stop = {} THEN lim ELSE CHOOSE i \in stop : \A j \in stop : i <= j

\* The captured piece <<caps, first, length>> of an item, if it captures.
Piece(it, pos, c) == IF it.caps = {} THEN <<>> ELSE << <<it.caps, pos, c>> >>

\* Every way pattern pat matches s from position pos, each as [end, key,
\* pieces]: the position after the match, the choices made on the way and the
\* captured pieces.  A class item that takes c characters adds the choice -c, an
\* option 0 when present and 1 when absent, a choice the number of the branch
\* taken.  to: the position the match must end at (0: anywhere).  A pattern with
\* a literal is cut at the literal nearest its middle, which is looked for in s;
\* another pattern is cut in two halves.
RECURSIVE MatchAll(_, _, _, _)
MatchAll(pat, s, pos, to) ==
    LET lits == {i \in 1..Len(pat) : "lit" \in DOMAIN pat[i]}
        mid  == (Len(pat) + 1) \div 2
        far(i) == IF i < mid THEN mid - i ELSE i - mid
    IN
    IF pat = <<>>
    THEN IF to \in {0, pos} THEN {[end |-> pos, key |-> <<>>, pieces |-> <<>>]}
         ELSE {}
    ELSE IF lits # {}
    THEN LET k   == CHOOSE i \in lits : \A j \in lits :
                        far(i) < far(j) \/ (far(i) = far(j) /\ i <= j)
             lit == pat[k].lit
             n   == Len(lit)
             at  == {q \in pos..(IF to = 0 THEN Len(s) + 1 ELSE to) - n :
                        MatchesAt(s, lit, q)}
         IN  UNION {UNION {{[end |-> b.end, key |-> a.key \o b.key,
                             pieces |-> a.pieces \o Piece(pat[k], q, n) \o b.pieces] :
                               b \in MatchAll(SubSeq(pat, k + 1, Len(pat)), s, q + n, to)} :
                           a \in MatchAll(SubSeq(pat, 1, k - 1), s, pos, q)} :
                    q \in at}
    ELSE IF Len(pat) > 1
    THEN UNION {{[end |-> b.end, key |-> a.key \o b.key,
                  pieces |-> a.pieces \o b.pieces] :
                    b \in MatchAll(SubSeq(pat, mid + 1, Len(pat)), s, a.end, to)} :
                a \in MatchAll(SubSeq(pat, 1, mid), s, pos, 0)}
    ELSE LET it == pat[1] IN
    IF "opt" \in DOMAIN it
    THEN {[m EXCEPT !.key = <<0>> \o @] : m \in MatchAll(it.opt, s, pos, to)}
         \cup {[m EXCEPT !.key = <<1>>] : m \in MatchAll(<<>>, s, pos, to)}
    ELSE IF "alt" \in DOMAIN it
    THEN UNION {{[m EXCEPT !.key = <<j>> \o @] :
                    m \in MatchAll(it.alt[j], s, pos, to)} :
                j \in 1..Len(it.alt)}
    ELSE {[end |-> pos + c, key |-> <<0 - c>>, pieces |-> Piece(it, pos, c)] :
            c \in {x \in it.min..Run(s, it.cls, pos, it.max) :
                     to \in {0, pos + x}}}

\* k1 comes before k2 in the backtracking order of Python's re: at the first
\* choice where they differ, k1 made the one tried first.
Before(k1, k2) ==
    LET d == {i \in 1..Len(k1) : i <= Len(k2) /\ k1[i] # k2[i]}
    IN  d # {} /\ LET i == CHOOSE x \in d : \A y \in d : x <= y
                  IN  k1[i] < k2[i]

\* The match Python's re reports: the first one in backtracking order, as Some
\* of its captured pieces, or None.
First(ms) ==
    IF ms = {} THEN None
    ELSE Some((CHOOSE m \in ms : \A o \in ms : o = m \/ Before(m.key, o.key)).pieces)

\* re.fullmatch(pat, s), re.match(pat, s) and re.search(pat, s) is not None
fullmatch(pat, s) == First(MatchAll(pat, s, 1, Len(s) + 1))
match(pat, s) == First(MatchAll(pat, s, 1, 0))
search(pat, s) ==
    MatchAll(<<Item(AnyChar \cup {"\n"}, 0, -1)>> \o pat, s, 1, 0) # {}

RECURSIVE GroupFrom(_, _, _)
GroupFrom(s, pieces, g) ==
    IF pieces = <<>> THEN <<>>
    ELSE (IF g \in Head(pieces)[1]
          THEN SubSeq(s, Head(pieces)[2], Head(pieces)[2] + Head(pieces)[3] - 1)
          ELSE <<>>)
         \o GroupFrom(s, Tail(pieces), g)

\* m.group(g) of the match m (a Some) on s; '' stands for a group that took no
\* part in the match (None), which the code only tests for truth.
group(s, m, g) == GroupFrom(s, m[1], g)

\* ------------------------------------------------------------ value objects
\* What a call yields: a value, or the exception it raises.
Return(v) == [raised |-> None, value |-> v]
Raise(e) == [raised |-> Some(e), value |-> None]

IsLeap(y) == (y % 4 = 0 /\ y % 100 # 0) \/ y % 400 = 0
DaysInMonth(y, m) ==
    IF m = 2 THEN (IF IsLeap(y) THEN 29 ELSE 28)
    ELSE IF m \in {4, 6, 9, 11} THEN 30 ELSE 31

\* datetime.date(y, m, d): Some(<<y, m, d>>), or None where it raises ValueError.
date(y, m, d) ==
    IF y >= 1 /\ y <= 9999 /\ m >= 1 /\ m <= 12 /\ d >= 1 /\ d <= DaysInMonth(y, m)
    THEN Some(<<y, m, d>>) ELSE None

\* __post_init__ without its first assertion (a variant used to test properties)
post_init_signs_only(t) ==
    /\ t.credit # None => t.credit[1] >= 0
    /\ t.debit # None => t.debit[1] >= 0

\* Transaction.__post_init__: the assertions hold.
post_init(t) ==
    /\ (t.credit = None) # (t.debit = None)
    /\ t.credit # None => t.credit[1] >= 0
    /\ t.debit # None => t.debit[1] >= 0

\* Transaction(...): Some(the record), or None where __post_init__ raises
\* AssertionError.  credit, debit, balance and note are None or Some(value).
Transaction(tx_date, post_date, payee, credit, debit, balance, note) ==
    LET t == [tx_date |-> tx_date, post_date |-> post_date, payee |-> payee,
              credit |-> credit, debit |-> debit, balance |-> balance,
              note |-> note]
    IN  IF post_init(t) THEN Some(t) ELSE None

\* ---------------------------------------------------------- field sanitizer
MONTHS == << <<"j","a","n">>, <<"f","e","b">>, <<"m","a","r">>, <<"a","p","r">>, <<"m","a","y">>, <<"j","u","n">>,
             <<"j","u","l">>, <<"a","u","g">>, <<"s","e","p">>, <<"o","c","t">>, <<"n","o","v">>, <<"d","e","c">> >>

\* list.index(x) that gives 0 where x is not in the list (a variant used to
\* test properties)
index_or_first(list, x) ==
    LET at == {i \in 1..Len(list) : list[i] = x}
    IN  IF at = {} THEN Some(0)
        ELSE Some((CHOOSE i \in at : \A j \in at : i <= j) - 1)

\* list.index(x): Some(the 0-based position), or None where it raises ValueError.
index(list, x) ==
    LET at == {i \in 1..Len(list) : list[i] = x}
    IN  IF at = {} THEN None
        ELSE Some((CHOOSE i \in at : \A j \in at : i <= j) - 1)

\* One pass of s.replace('  ', ' '): non-overlapping pairs, left to right.
RECURSIVE ReplacePairs(_)
ReplacePairs(s) ==
    IF Len(s) < 2 THEN s
    ELSE IF s[1] = " " /\ s[2] = " "
         THEN <<" ">> \o ReplacePairs(SubSeq(s, 3, Len(s)))
    ELSE <<Head(s)>> \o ReplacePairs(Tail(s))

RECURSIVE sanitize_string(_)
sanitize_string(s) ==
    IF Contains(s, <<" ", " ">>) THEN sanitize_string(ReplacePairs(s)) ELSE s

sanitize_amount(s) ==
    strip(Without(Without(Without(Without(s, " "), ","), "."), "$"))

\* sum(credit) and sum(debit) over the transactions that carry one
RECURSIVE SumCredit(_)
SumCredit(txs) ==
    IF txs = <<>> THEN 0
    ELSE (IF Head(txs).credit # None THEN Head(txs).credit[1] ELSE 0)
         + SumCredit(Tail(txs))

RECURSIVE SumDebit(_)
SumDebit(txs) ==
    IF txs = <<>> THEN 0
    ELSE (IF Head(txs).debit # None
          THEN Head(txs).debit[1] ELSE 0)
         + SumDebit(Tail(txs))

\* text.split('\n') and its inverse
RECURSIVE split(_)
split(text) ==
    LET brk == {i \in 1..Len(text) : text[i] = "\n"}
    IN  IF brk = {} THEN <<text>>
        ELSE LET i == CHOOSE x \in brk : \A y \in brk : x <= y
             IN  <<SubSeq(text, 1, i - 1)>> \o split(SubSeq(text, i + 1, Len(text)))

RECURSIVE join(_)
join(ls) ==
    IF Len(ls) = 1 THEN ls[1]
    ELSE ls[1] \o <<"\n">> \o join(Tail(ls))

\* obj.name = v
SetAttr(obj, name, v) ==
    [a \in DOMAIN obj \cup {name} |-> IF a = name THEN v ELSE obj[a]]

\* A line with text put at 0-based column col, as the layout-preserving
\* extraction places it.
At(line, col, text) == line \o [i \in 1..(col - Len(line)) |-> " "] \o text

\* ------------------------------------- the regular expressions of the source
Upper1 == <<Item(Upper, 1, 1)>>
Lowers == <<Item(Lower, 1, -1)>>
Lowers0 == <<Item(Lower, 0, -1)>>
Digits == <<Item(Digit, 1, -1)>>
Digits2 == <<Item(Digit, 2, 2)>>
Upper3 == <<Item(Upper, 3, 3)>>
\* \w+
Words == <<Item(Upper \cup Lower \cup Digit \cup {"_"}, 1, -1)>>
\* [\d,]+.\d{2} and [\d,]+\.\d{2}
AmountAny == DigitsCommas \o Dot \o Digits2
AmountDot == DigitsCommas \o Lit(<<".">>) \o Digits2

\* \s+([A-Z][a-z]{2})\s+(\d{1,2})\s+(.+)
BMOChequing_TX_PATTERN ==
    Ws \o Cap(1, Mon) \o Ws \o Cap(2, Day) \o Ws \o Cap(3, Dots1)
\* \s+For\s+the\s+period\s+ending\s+[A-Z][a-z]+\s+\d{2},\s+(\d{4}).*
BMOChequing_YEAR ==
    Ws \o Lit(<<"F","o","r">>) \o Ws \o Lit(<<"t","h","e">>) \o Ws \o Lit(<<"p","e","r","i","o","d">>) \o Ws
    \o Lit(<<"e","n","d","i","n","g">>) \o Ws \o Upper1 \o Lowers \o Ws \o Digits2 \o Lit(<<",">>)
    \o Ws \o Cap(1, Year4) \o Dots
\* \s+Date\s+Description\s+.*
BMOChequing_HEADER ==
    Ws \o Lit(<<"D","a","t","e">>) \o Ws \o Lit(<<"D","e","s","c","r","i","p","t","i","o","n">>) \o Ws \o Dots

\* \s+([A-Z][a-z]{2})\.\s+(\d{1,2})\s+([A-Z][a-z]{2})\.\s+(\d{1,2})\s+(.+)
BMOMastercard_TX_PATTERN ==
    Ws \o Cap(1, Mon) \o Lit(<<".">>) \o Ws \o Cap(2, Day) \o Ws
    \o Cap(3, Mon) \o Lit(<<".">>) \o Ws \o Cap(4, Day) \o Ws \o Cap(5, Dots1)
\* \s+Previous\s+(?:total\s+)?balance,\s+[A-Z][a-z]{2}\.\s+\d{1,2},\s+\d{4}\s+\$([\d,]+.\d{2}\s+(CR)?).*
BMOMastercard_OPENING ==
    Ws \o Lit(<<"P","r","e","v","i","o","u","s">>) \o Ws \o Opt(Lit(<<"t","o","t","a","l">>) \o Ws)
    \o Lit(<<"b","a","l","a","n","c","e",",">>) \o Ws \o Mon \o Lit(<<".">>) \o Ws \o Day \o Lit(<<",">>)
    \o Ws \o Year4 \o Ws \o Lit(<<"$">>)
    \o Cap(1, AmountAny \o Ws \o Opt(Cap(2, Lit(<<"C","R">>)))) \o Dots
\* .*\s+Statement\s+date\s+[A-Z][a-z]+\.\s+\d{1,2},\s+(\d{4}).*
BMOMastercard_YEAR ==
    Dots \o Ws \o Lit(<<"S","t","a","t","e","m","e","n","t">>) \o Ws \o Lit(<<"d","a","t","e">>) \o Ws \o Upper1
    \o Lowers \o Lit(<<".">>) \o Ws \o Day \o Lit(<<",">>) \o Ws \o Cap(1, Year4)
    \o Dots
\* \s+Total\s+balance\s+\$([\d,]+.\d{2})\s+(CR)?.*
BMOMastercard_CLOSING ==
    Ws \o Lit(<<"T","o","t","a","l">>) \o Ws \o Lit(<<"b","a","l","a","n","c","e">>) \o Ws \o Lit(<<"$">>)
    \o Cap(1, AmountAny) \o Ws \o Opt(Cap(2, Lit(<<"C","R">>))) \o Dots
\* \s+DATE\s+DATE\s+DESCRIPTION\s+AMOUNT.*
BMOMastercard_HEADER ==
    Ws \o Lit(<<"D","A","T","E">>) \o Ws \o Lit(<<"D","A","T","E">>) \o Ws \o Lit(<<"D","E","S","C","R","I","P","T","I","O","N">>)
    \o Ws \o Lit(<<"A","M","O","U","N","T">>) \o Dots
\* \s+Total\s+for\s+card\s+number\s+XXXX\s+XXXX\s+XXXX\s+\d{4}\s+\$([\d,]+\.\d{2})\s+
BMOMastercard_CARD_TOTAL ==
    Ws \o Lit(<<"T","o","t","a","l">>) \o Ws \o Lit(<<"f","o","r">>) \o Ws \o Lit(<<"c","a","r","d">>) \o Ws
    \o Lit(<<"n","u","m","b","e","r">>) \o Ws \o Lit(<<"X","X","X","X">>) \o Ws \o Lit(<<"X","X","X","X">>) \o Ws
    \o Lit(<<"X","X","X","X">>) \o Ws \o Year4 \o Ws \o Lit(<<"$">>) \o Cap(1, AmountDot)
    \o Ws

\* \s+([A-Z][a-z]{2})\.\s+(\d{1,2})\s+([A-Z][a-z]{2})\.\s+(\d{1,2})\s+(.+)
OldBMOMastercard_TX_PATTERN ==
    Ws \o Cap(1, Mon) \o Lit(<<".">>) \o Ws \o Cap(2, Day) \o Ws
    \o Cap(3, Mon) \o Lit(<<".">>) \o Ws \o Cap(4, Day) \o Ws \o Cap(5, Dots1)
\* .*\s+Statement\s+Date\s+[A-Z][a-z]+\.\s+\d{1,2},\s+(\d{4}).*
OldBMOMastercard_YEAR ==
    Dots \o Ws \o Lit(<<"S","t","a","t","e","m","e","n","t">>) \o Ws \o Lit(<<"D","a","t","e">>) \o Ws \o Upper1
    \o Lowers \o Lit(<<".">>) \o Ws \o Day \o Lit(<<",">>) \o Ws \o Cap(1, Year4)
    \o Dots
\* .*\s+Previous\s+Balance,\s+[A-Z][a-z]{2}\.\s+\d{1,2},\s+\d{4}\s+\$([\d,]+.\d{2}).*
OldBMOMastercard_OPENING ==
    Dots \o Ws \o Lit(<<"P","r","e","v","i","o","u","s">>) \o Ws \o Lit(<<"B","a","l","a","n","c","e",",">>) \o Ws \o Mon
    \o Lit(<<".">>) \o Ws \o Day \o Lit(<<",">>) \o Ws \o Year4 \o Ws \o Lit(<<"$">>)
    \o Cap(1, AmountAny) \o Dots
\* .*\s+New\s+Balance,\s+[A-Z][a-z]{2}\.\s+\d{1,2},\s+\d{4}\s+\$([\d,]+.\d{2})(\s+CR)?.*
OldBMOMastercard_CLOSING ==
    Dots \o Ws \o Lit(<<"N","e","w">>) \o Ws \o Lit(<<"B","a","l","a","n","c","e",",">>) \o Ws \o Mon
    \o Lit(<<".">>) \o Ws \o Day \o Lit(<<",">>) \o Ws \o Year4 \o Ws \o Lit(<<"$">>)
    \o Cap(1, AmountAny) \o Opt(Cap(2, Ws \o Lit(<<"C","R">>))) \o Dots
\* \s+DATE\s+DATE\s+DESCRIPTION\s+REFERENCE\sNO\.\s+AMOUNT.*
OldBMOMastercard_HEADER ==
    Ws \o Lit(<<"D","A","T","E">>) \o Ws \o Lit(<<"D","A","T","E">>) \o Ws \o Lit(<<"D","E","S","C","R","I","P","T","I","O","N">>)
    \o Ws \o Lit(<<"R","E","F","E","R","E","N","C","E">>) \o <<Item(Whitespace, 1, 1)>> \o Lit(<<"N","O",".">>)
    \o Ws \o Lit(<<"A","M","O","U","N","T">>) \o Dots

\* \s+(\d{1,2})\s+([A-Z][a-z]{2})\s+(.+)
RBCChequing_TX_PATTERN ==
    Ws \o Cap(1, Day) \o Ws \o Cap(2, Mon) \o Ws \o Cap(3, Dots1)
\* \s*Royal\s+Bank\s+of\s+Canada\s*
RBCChequing_BANK ==
    Ws0 \o Lit(<<"R","o","y","a","l">>) \o Ws \o Lit(<<"B","a","n","k">>) \o Ws \o Lit(<<"o","f">>) \o Ws
    \o Lit(<<"C","a","n","a","d","a">>) \o Ws0
\* .*Total\s+deposits.*
RBCChequing_DEPOSITS == Dots \o Lit(<<"T","o","t","a","l">>) \o Ws \o Lit(<<"d","e","p","o","s","i","t","s">>) \o Dots
\* \s+Your\s+opening\s+balance\s+(?:on\s+[A-Z][a-z]*\s+\d+,\s+\d{4}\s+)?((?:-\s*)?\$[\d,]+.\d{2}).*
RBCChequing_OPENING ==
    Ws \o Lit(<<"Y","o","u","r">>) \o Ws \o Lit(<<"o","p","e","n","i","n","g">>) \o Ws \o Lit(<<"b","a","l","a","n","c","e">>)
    \o Ws
    \o Opt(Lit(<<"o","n">>) \o Ws \o Upper1 \o Lowers0 \o Ws \o Digits \o Lit(<<",">>)
           \o Ws \o Year4 \o Ws)
    \o Cap(1, Opt(Lit(<<"-">>) \o Ws0) \o Lit(<<"$">>) \o AmountAny) \o Dots
\* \s+Your\s+closing\s+balance\s+on\s+([A-Z][a-z]{2})[a-z]*\s+(\d+),\s+(\d{4})\s+=\s+((?:-\s*)?\$[\d,]+.\d{2}).*
RBCChequing_CLOSING ==
    Ws \o Lit(<<"Y","o","u","r">>) \o Ws \o Lit(<<"c","l","o","s","i","n","g">>) \o Ws \o Lit(<<"b","a","l","a","n","c","e">>)
    \o Ws \o Lit(<<"o","n">>) \o Ws \o Cap(1, Mon) \o Lowers0 \o Ws
    \o Cap(2, Digits) \o Lit(<<",">>) \o Ws \o Cap(3, Year4) \o Ws \o Lit(<<"=">>)
    \o Ws \o Cap(4, Opt(Lit(<<"-">>) \o Ws0) \o Lit(<<"$">>) \o AmountAny) \o Dots
\* \s+Date\s+Description\s+Withdrawals\s+.*
RBCChequing_HEADER ==
    Ws \o Lit(<<"D","a","t","e">>) \o Ws \o Lit(<<"D","e","s","c","r","i","p","t","i","o","n">>) \o Ws
    \o Lit(<<"W","i","t","h","d","r","a","w","a","l","s">>) \o Ws \o Dots

\* .*STATEMENT\s+FROM\s+(\w+)\s+(\d+)(?:,\s+(\d{4}))?\s+TO\s+(\w+)\s+(\d+),\s+(\d{4}).*
RBCMastercard_YEAR ==
    Dots \o Lit(<<"S","T","A","T","E","M","E","N","T">>) \o Ws \o Lit(<<"F","R","O","M">>) \o Ws \o Cap(1, Words)
    \o Ws \o Cap(2, Digits) \o Opt(Lit(<<",">>) \o Ws \o Cap(3, Year4)) \o Ws
    \o Lit(<<"T","O">>) \o Ws \o Cap(4, Words) \o Ws \o Cap(5, Digits) \o Lit(<<",">>)
    \o Ws \o Cap(6, Year4) \o Dots
\* .*Previous\s+(?:Statement|Account)\s+Balance\s+((?:-)?\$[\d,]+\.\d{2}).*
RBCMastercard_OPENING ==
    Dots \o Lit(<<"P","r","e","v","i","o","u","s">>) \o Ws \o Alt(Lit(<<"S","t","a","t","e","m","e","n","t">>), Lit(<<"A","c","c","o","u","n","t">>))
    \o Ws \o Lit(<<"B","a","l","a","n","c","e">>) \o Ws
    \o Cap(1, Opt(Lit(<<"-">>)) \o Lit(<<"$">>) \o AmountDot) \o Dots
\* .*(?:NEW|CREDIT)\s+BALANCE\s+((?:-)?\$[\d,]+\.\d{2}).*
RBCMastercard_CLOSING ==
    Dots \o Alt(Lit(<<"N","E","W">>), Lit(<<"C","R","E","D","I","T">>)) \o Ws \o Lit(<<"B","A","L","A","N","C","E">>) \o Ws
    \o Cap(1, Opt(Lit(<<"-">>)) \o Lit(<<"$">>) \o AmountDot) \o Dots
\* .*DATE\s+DATE\s+.*
RBCMastercard_HEADER ==
    Dots \o Lit(<<"D","A","T","E">>) \o Ws \o Lit(<<"D","A","T","E">>) \o Ws \o Dots
\* \s+([A-Z]{3})\s+(\d{2})\s+([A-Z]{3})\s+(\d{2})\s+(.+)
RBCMastercard_TX_PATTERN ==
    Ws \o Cap(1, Upper3) \o Ws \o Cap(2, Digits2) \o Ws \o Cap(3, Upper3)
    \o Ws \o Cap(4, Digits2) \o Ws \o Cap(5, Dots1)
\* BALANCEPROTECTOR\s+PREMIUM
RBCMastercard_PREMIUM == Lit(<<"B","A","L","A","N","C","E","P","R","O","T","E","C","T","O","R">>) \o Ws \o Lit(<<"P","R","E","M","I","U","M">>)
\* AUTOMATIC\s+PAYMENT\s+-\s+THANK\s+YOU
RBCMastercard_PAYMENT ==
    Lit(<<"A","U","T","O","M","A","T","I","C">>) \o Ws \o Lit(<<"P","A","Y","M","E","N","T">>) \o Ws \o Lit(<<"-">>) \o Ws
    \o Lit(<<"T","H","A","N","K">>) \o Ws \o Lit(<<"Y","O","U">>)
\* \d{11,23}
RBCMastercard_REFERENCE == <<Item(Digit, 11, 23)>>
\* .*NEW\s+BALANCE.*
RBCMastercard_NEW_BALANCE ==
    Dots \o Lit(<<"N","E","W">>) \o Ws \o Lit(<<"B","A","L","A","N","C","E">>) \o Dots

\* ---------------------------------------------------------------- documents
\* The lines a statement of each variant is made of, laid out as the
\* layout-preserving text extraction gives them: a header row of the table, a
\* row with an amount of 120.00 that the variant reads as a credit, a row with
\* an amount of 30.00 that it reads as a debit, and the variant's special rows.
BMOChequing_HEADER_LINE == At(<<" "," "," ","D","a","t","e"," "," "," ","D","e","s","c","r","i","p","t","i","o","n">>, 70, <<"A","m","o","u","n","t","s">>)
BMOChequing_CREDIT_LINE == At(<<" "," "," ","J","a","n"," ","5"," "," "," ","P","A","Y">>, 70, <<"1","2","0",".","0","0">>)
BMOChequing_DEBIT_LINE == At(<<" "," "," ","J","a","n"," ","6"," "," "," ","A","T","M">>, 90, <<"3","0",".","0","0">>)
BMOChequing_TOTALS_LINE ==
    At(At(<<" "," "," ","J","a","n"," ","3","1"," "," ","C","l","o","s","i","n","g"," ","t","o","t","a","l","s">>, 70, <<"1","2","0",".","0","0">>), 90, <<"3","0",".","0","0">>)
\* a row with no amount in either column
BMOChequing_BLANK_LINE == <<" "," "," ","J","a","n"," ","7"," "," "," ","F","E","E">>
BMOChequing_STOP_LINE == <<" "," "," ","P","l","e","a","s","e"," ","r","e","p","o","r","t"," ","a","n","y"," ","e","r","r","o","r","s">>
BMOChequing_LINES ==
    {BMOChequing_HEADER_LINE, BMOChequing_CREDIT_LINE, BMOChequing_DEBIT_LINE,
     BMOChequing_TOTALS_LINE, BMOChequing_BLANK_LINE, BMOChequing_STOP_LINE}

BMOMastercard_HEADER_LINE == At(<<" "," "," ","D","A","T","E"," "," "," ","D","A","T","E"," "," "," ","D","E","S","C","R","I","P","T","I","O","N">>, 78, <<"A","M","O","U","N","T">>)
BMOMastercard_CREDIT_LINE == At(<<" "," "," ","J","a","n","."," ","5"," "," "," ","J","a","n","."," ","6"," "," "," ","S","H","O","P">>, 78, <<"1","2","0",".","0","0">>)
BMOMastercard_DEBIT_LINE == At(<<" "," "," ","J","a","n","."," ","7"," "," "," ","J","a","n","."," ","8"," "," "," ","P","A","Y","M","E","N","T">>, 78, <<"3","0",".","0","0"," ","C","R">>)
BMOMastercard_TOTAL_LINE ==
    At(<<" "," "," ","T","o","t","a","l"," ","f","o","r"," ","c","a","r","d"," ","n","u","m","b","e","r"," ","X","X","X","X"," ","X","X","X","X"," ","X","X","X","X"," ","1","2","3","4">>, 78, <<"$","5","9","0",".","0","0"," ">>)
BMOMastercard_LINES ==
    {BMOMastercard_HEADER_LINE, BMOMastercard_CREDIT_LINE,
     BMOMastercard_DEBIT_LINE, BMOMastercard_TOTAL_LINE}

OldBMOMastercard_HEADER_LINE ==
    At(At(<<" "," "," ","D","A","T","E"," "," "," ","D","A","T","E"," "," "," ","D","E","S","C","R","I","P","T","I","O","N">>, 88, <<"R","E","F","E","R","E","N","C","E"," ","N","O",".">>), 118, <<"A","M","O","U","N","T">>)
OldBMOMastercard_CREDIT_LINE ==
    At(At(<<" "," "," ","J","a","n","."," ","5"," "," "," ","J","a","n","."," ","6"," "," "," ","S","H","O","P">>, 88, <<"R","1">>), 118, <<"1","2","0",".","0","0">>)
OldBMOMastercard_DEBIT_LINE ==
    At(At(<<" "," "," ","J","a","n","."," ","7"," "," "," ","J","a","n","."," ","8"," "," "," ","P","A","Y","M","E","N","T">>, 88, <<"R","2">>), 118, <<"3","0",".","0","0"," ","C","R">>)
OldBMOMastercard_LINES ==
    {OldBMOMastercard_HEADER_LINE, OldBMOMastercard_CREDIT_LINE,
     OldBMOMastercard_DEBIT_LINE}

RBCChequing_HEADER_LINE == At(<<" "," "," ","D","a","t","e"," "," "," ","D","e","s","c","r","i","p","t","i","o","n">>, 68, <<"W","i","t","h","d","r","a","w","a","l","s"," ">>)
RBCChequing_CREDIT_LINE == At(<<" "," "," ","5"," ","J","a","n"," "," "," ","R","E","N","T">>, 68, <<"1","2","0",".","0","0">>)
RBCChequing_DEBIT_LINE == At(<<" "," "," ","6"," ","J","a","n"," "," "," ","P","A","Y","R","O","L","L">>, 88, <<"3","0",".","0","0">>)
\* a row with no amount in either column: the start of a multi-line transaction
RBCChequing_PENDING_LINE == <<" "," "," ","7"," ","J","a","n"," "," "," ","E","-","T","R","A","N","S","F","E","R">>
RBCChequing_LINES ==
    {RBCChequing_HEADER_LINE, RBCChequing_CREDIT_LINE, RBCChequing_DEBIT_LINE,
     RBCChequing_PENDING_LINE}

RBCMastercard_HEADER_LINE == <<" "," "," ","D","A","T","E"," "," "," ","D","A","T","E"," "," "," ","A","C","T","I","V","I","T","Y">>
RBCMastercard_CREDIT_LINE == At(<<" "," "," ","J","A","N"," ","0","5"," "," "," ","J","A","N"," ","0","6"," "," "," ","S","H","O","P">>, 76, <<"$","1","2","0",".","0","0">>)
RBCMastercard_REFERENCE_LINE == <<" "," "," ","1","2","3","4","5","6","7","8","9","0","1">>
RBCMastercard_DEBIT_LINE ==
    At(<<" "," "," ","J","A","N"," ","0","7"," "," "," ","J","A","N"," ","0","8"," "," "," ","A","U","T","O","M","A","T","I","C"," ","P","A","Y","M","E","N","T"," ","-"," ","T","H","A","N","K"," ","Y","O","U">>, 76, <<"-","$","3","0",".","0","0">>)
RBCMastercard_STOP_LINE == <<" "," "," ","N","E","W"," ","B","A","L","A","N","C","E"," "," "," ","$","5","9","0",".","0","0">>
RBCMastercard_LINES ==
    {RBCMastercard_HEADER_LINE, RBCMastercard_CREDIT_LINE,
     RBCMastercard_REFERENCE_LINE, RBCMastercard_DEBIT_LINE,
     RBCMastercard_STOP_LINE}

\* The lines of further statements: a table whose header row names its three
\* amount columns and a row laid out under it, rows of known boilerplate, rows
\* whose description holds two spaces in a row, rows with no amount, and the
\* lines that end a page.
BMOChequing_COLUMNS_LINE ==
    At(At(At(<<" "," "," ","D","a","t","e"," "," "," ","D","e","s","c","r","i","p","t","i","o","n">>, 72, <<"W","i","t","h","d","r","a","w","a","l","s","(","$",")">>),
          94, <<"D","e","p","o","s","i","t","s","(","$",")">>), 116, <<"B","a","l","a","n","c","e","(","$",")">>)
BMOChequing_GROCERY_LINE ==
    At(At(<<" "," "," ","J","a","n"," ","5"," "," "," ","G","R","O","C","E","R","Y"," ","S","T","O","R","E"," ","P","U","R","C","H","A","S","E">>, 103, <<"4","2",".","1","7">>), 134, <<"1",",","0","0","0",".","0","0">>)
BMOChequing_OPENING_LINE == <<" "," "," ","J","a","n"," ","1"," "," "," ","O","p","e","n","i","n","g"," ","b","a","l","a","n","c","e">>
BMOChequing_SPACED_LINE == At(<<" "," "," ","J","a","n"," ","8"," "," "," ","C","O","F","F","E","E"," "," ","S","H","O","P">>, 70, <<"1",",","2","3","4",".","5","6">>)
BMOChequing_CONTINUED_LINE == <<" "," "," ","c","o","n","t","i","n","u","e","d">>
BMOChequing_MORE_LINES ==
    {BMOChequing_COLUMNS_LINE, BMOChequing_GROCERY_LINE,
     BMOChequing_OPENING_LINE, BMOChequing_SPACED_LINE,
     BMOChequing_CONTINUED_LINE}

BMOMastercard_NO_AMOUNT_LINE == <<" "," "," ","J","a","n","."," ","9"," "," "," ","J","a","n","."," ","9"," "," "," ","V","O","I","D">>
BMOMastercard_CONTINUED_LINE == <<" "," "," ","(","c","o","n","t","i","n","u","e","d"," ","o","n"," ","n","e","x","t"," ","p","a","g","e",")">>
BMOMastercard_MORE_LINES ==
    {BMOMastercard_HEADER_LINE, BMOMastercard_CREDIT_LINE,
     BMOMastercard_NO_AMOUNT_LINE, BMOMastercard_CONTINUED_LINE}

RBCChequing_OPENING_LINE == <<" "," "," ","O","p","e","n","i","n","g"," ","B","a","l","a","n","c","e">>
RBCChequing_NO_ACTIVITY_LINE == <<" "," "," ","N","o"," ","a","c","t","i","v","i","t","y"," ","f","o","r"," ","t","h","i","s"," ","p","e","r","i","o","d">>
RBCChequing_MORE_LINES ==
    {RBCChequing_HEADER_LINE, RBCChequing_OPENING_LINE,
     RBCChequing_NO_ACTIVITY_LINE, RBCChequing_CREDIT_LINE}

\* Rows whose month token is none of the twelve abbreviations, and rows of
\* December.
BMOChequing_UNKNOWN_MONTH_LINE == At(<<" "," "," ","F","o","o"," ","9"," "," "," ","F","E","E">>, 70, <<"5",".","0","0">>)
BMOChequing_DECEMBER_LINE == At(<<" "," "," ","D","e","c"," ","3","1"," "," "," ","I","N","T","E","R","E","S","T">>, 70, <<"1",".","0","0">>)
BMOChequing_MONTH_LINES ==
    {BMOChequing_HEADER_LINE, BMOChequing_UNKNOWN_MONTH_LINE,
     BMOChequing_DECEMBER_LINE}

RBCMastercard_UNKNOWN_MONTH_LINE ==
    At(<<" "," "," ","X","Y","Z"," ","0","5"," "," "," ","J","A","N"," ","0","6"," "," "," ","A","U","T","O","M","A","T","I","C"," ","P","A","Y","M","E","N","T"," ","-"," ","T","H","A","N","K"," ","Y","O","U">>, 76, <<"-","$","5",".","0","0">>)
RBCMastercard_UNKNOWN_POST_LINE ==
    At(<<" "," "," ","J","A","N"," ","0","5"," "," "," ","X","Y","Z"," ","0","6"," "," "," ","A","U","T","O","M","A","T","I","C"," ","P","A","Y","M","E","N","T"," ","-"," ","T","H","A","N","K"," ","Y","O","U">>, 76, <<"-","$","5",".","0","0">>)
RBCMastercard_DECEMBER_LINE ==
    At(<<" "," "," ","D","E","C"," ","3","0"," "," "," ","D","E","C"," ","3","1"," "," "," ","A","U","T","O","M","A","T","I","C"," ","P","A","Y","M","E","N","T"," ","-"," ","T","H","A","N","K"," ","Y","O","U">>, 76, <<"-","$","1",".","0","0">>)
RBCMastercard_MONTH_LINES ==
    {RBCMastercard_HEADER_LINE, RBCMastercard_UNKNOWN_MONTH_LINE,
     RBCMastercard_UNKNOWN_POST_LINE, RBCMastercard_DECEMBER_LINE}

\* A transaction printed on several lines: the dated line that opens it, a line
\* with neither a date nor an amount, and a line with an amount and no date.
RBCChequing_UNDATED_LINE == <<" "," "," "," "," "," "," "," "," "," "," ","T","O"," ","S","A","V","I","N","G","S">>
RBCChequing_UNDATED_AMOUNT_LINE == At(<<" "," "," "," "," "," "," "," "," "," "," ","S","E","R","V","I","C","E"," ","F","E","E">>, 68, <<"5",".","0","0">>)
RBCChequing_SPLIT_LINES ==
    {RBCChequing_HEADER_LINE, RBCChequing_PENDING_LINE,
     RBCChequing_UNDATED_LINE, RBCChequing_UNDATED_AMOUNT_LINE}

\* A row whose description goes on in the line below it, with the line that
\* ends the page.
BMOChequing_WRAP_LINE == <<" "," "," "," "," "," "," "," "," "," "," ","R","E","F"," ","1","2","3">>
BMOChequing_WRAPPED_LINES ==
    {BMOChequing_HEADER_LINE, BMOChequing_CREDIT_LINE, BMOChequing_WRAP_LINE,
     BMOChequing_CONTINUED_LINE}

BMOMastercard_WRAP_LINE == <<" "," "," "," "," "," "," "," "," "," "," "," "," "," "," "," "," "," "," "," "," ","O","N","L","I","N","E"," "," ","O","R","D","E","R">>
BMOMastercard_WRAPPED_LINES ==
    {BMOMastercard_HEADER_LINE, BMOMastercard_CREDIT_LINE,
     BMOMastercard_WRAP_LINE, BMOMastercard_CONTINUED_LINE}

\* First pages, as pdf.pages[0].extract_text(layout=True, x_tolerance=1) gives
\* them: the line that the detector recognises, then the metadata lines.  The
\* balance-delta statements open at 500.00 and close at 590.00 or at 410.00.
BMOChequing_PAGE ==
    join(<<<<" "," ","B","M","O"," "," "," ","S","u","m","m","a","r","y"," ","o","f"," ","y","o","u","r"," ","a","c","c","o","u","n","t">>,
           <<" "," "," ","F","o","r"," ","t","h","e"," ","p","e","r","i","o","d"," ","e","n","d","i","n","g"," ","J","a","n","u","a","r","y"," ","3","1",","," ","2","0","2","4">>>>)
BMOChequing_PAGE_NO_YEAR == <<" "," ","B","M","O"," "," "," ","S","u","m","m","a","r","y"," ","o","f"," ","y","o","u","r"," ","a","c","c","o","u","n","t">>

BMOMastercard_PAGE_NO_CLOSING ==
    join(<<<<" "," ","B","M","O"," "," "," ","S","t","a","t","e","m","e","n","t"," ","d","a","t","e"," ","J","a","n","."," ","3","1",","," ","2","0","2","4">>,
           <<" "," "," ","P","r","e","v","i","o","u","s"," ","b","a","l","a","n","c","e",","," ","D","e","c","."," ","3","1",","," ","2","0","2","3"," "," "," ","$","5","0","0",".","0","0"," ">>>>)
BMOMastercard_PAGE_590 ==
    join(<<BMOMastercard_PAGE_NO_CLOSING, <<" "," "," ","T","o","t","a","l"," ","b","a","l","a","n","c","e"," "," "," ","$","5","9","0",".","0","0"," ">>>>)
BMOMastercard_PAGE_410 ==
    join(<<BMOMastercard_PAGE_NO_CLOSING, <<" "," "," ","T","o","t","a","l"," ","b","a","l","a","n","c","e"," "," "," ","$","4","1","0",".","0","0"," ">>>>)
\* a closing balance whose amount int() rejects: the . of the pattern of the
\* closing balance matches any character
BMOMastercard_PAGE_MALFORMED ==
    join(<<BMOMastercard_PAGE_NO_CLOSING, <<" "," "," ","T","o","t","a","l"," ","b","a","l","a","n","c","e"," "," "," ","$","5","9","0","-","0","0"," ">>>>)
BMOMastercard_PAGE_NOTHING == <<" "," ","B","M","O"," "," "," ","S","t","a","t","e","m","e","n","t"," ","d","a","t","e">>

\* the first page that carries the older marker and the newer one
OldBMOMastercard_PAGE_590 ==
    join(<<<<" "," ","B","M","O"," "," "," ","S","t","a","t","e","m","e","n","t"," ","D","a","t","e"," ","J","a","n","."," ","3","1",","," ","2","0","2","4"," "," "," ","S","t","a","t","e","m","e","n","t"," ","d","a","t","e"," ","J","a","n","."," ","3","1",","," ","2","0","2","4">>,
           <<" "," "," ","P","r","e","v","i","o","u","s"," ","B","a","l","a","n","c","e",","," ","D","e","c","."," ","3","1",","," ","2","0","2","3"," "," "," ","$","5","0","0",".","0","0">>,
           <<" "," "," ","N","e","w"," ","B","a","l","a","n","c","e",","," ","J","a","n","."," ","3","1",","," ","2","0","2","4"," "," "," ","$","5","9","0",".","0","0">>>>)
OldBMOMastercard_PAGE_410 ==
    join(<<<<" "," ","B","M","O"," "," "," ","S","t","a","t","e","m","e","n","t"," ","D","a","t","e"," ","J","a","n","."," ","3","1",","," ","2","0","2","4">>,
           <<" "," "," ","P","r","e","v","i","o","u","s"," ","B","a","l","a","n","c","e",","," ","D","e","c","."," ","3","1",","," ","2","0","2","3"," "," "," ","$","5","0","0",".","0","0">>,
           <<" "," "," ","N","e","w"," ","B","a","l","a","n","c","e",","," ","J","a","n","."," ","3","1",","," ","2","0","2","4"," "," "," ","$","4","1","0",".","0","0">>>>)
OldBMOMastercard_PAGE_NOTHING == <<" "," ","B","M","O"," "," "," ","S","t","a","t","e","m","e","n","t"," ","D","a","t","e">>

RBCChequing_PAGE_NOTHING == <<" "," ","R","o","y","a","l"," ","B","a","n","k"," ","o","f"," ","C","a","n","a","d","a"," "," "," ","T","o","t","a","l"," ","d","e","p","o","s","i","t","s">>
RBCChequing_PAGE_500 ==
    join(<<RBCChequing_PAGE_NOTHING,
           <<" "," "," ","Y","o","u","r"," ","o","p","e","n","i","n","g"," ","b","a","l","a","n","c","e"," ","o","n"," ","J","a","n"," ","1",","," ","2","0","2","4"," "," "," ","$","5","0","0",".","0","0">>,
           <<" "," "," ","Y","o","u","r"," ","c","l","o","s","i","n","g"," ","b","a","l","a","n","c","e"," ","o","n"," ","J","a","n"," ","3","1",","," ","2","0","2","4"," ","="," "," "," ","$","5","0","0",".","0","0">>>>)
RBCChequing_PAGE_410 ==
    join(<<RBCChequing_PAGE_NOTHING,
           <<" "," "," ","Y","o","u","r"," ","o","p","e","n","i","n","g"," ","b","a","l","a","n","c","e"," ","o","n"," ","J","a","n"," ","1",","," ","2","0","2","4"," "," "," ","$","5","0","0",".","0","0">>,
           <<" "," "," ","Y","o","u","r"," ","c","l","o","s","i","n","g"," ","b","a","l","a","n","c","e"," ","o","n"," ","J","a","n"," ","3","1",","," ","2","0","2","4"," ","="," "," "," ","$","4","1","0",".","0","0">>>>)

RBCMastercard_PAGE_NOTHING == <<" "," ","R","B","C"," ","M","a","s","t","e","r","c","a","r","d">>
RBCMastercard_PAGE_590 ==
    join(<<<<" "," ","R","B","C"," ","M","a","s","t","e","r","c","a","r","d"," "," "," ","S","T","A","T","E","M","E","N","T"," ","F","R","O","M"," ","D","E","C"," ","3","1"," ","T","O"," ","J","A","N"," ","3","1",","," ","2","0","2","4">>,
           <<" "," "," ","P","r","e","v","i","o","u","s"," ","S","t","a","t","e","m","e","n","t"," ","B","a","l","a","n","c","e"," "," "," ","$","5","0","0",".","0","0">>,
           <<" "," "," ","N","E","W"," ","B","A","L","A","N","C","E"," "," "," ","$","5","9","0",".","0","0">>>>)
RBCMastercard_PAGE_410 ==
    join(<<<<" "," ","R","B","C"," ","M","a","s","t","e","r","c","a","r","d"," "," "," ","S","T","A","T","E","M","E","N","T"," ","F","R","O","M"," ","D","E","C"," ","3","1"," ","T","O"," ","J","A","N"," ","3","1",","," ","2","0","2","4">>,
           <<" "," "," ","P","r","e","v","i","o","u","s"," ","S","t","a","t","e","m","e","n","t"," ","B","a","l","a","n","c","e"," "," "," ","$","5","0","0",".","0","0">>,
           <<" "," "," ","N","E","W"," ","B","A","L","A","N","C","E"," "," "," ","$","4","1","0",".","0","0">>>>)

\* the first pages of the further statements
BMOChequing_PAGE_FEBRUARY ==
    join(<<<<" "," ","B","M","O"," "," "," ","S","u","m","m","a","r","y"," ","o","f"," ","y","o","u","r"," ","a","c","c","o","u","n","t">>,
           <<" "," "," ","F","o","r"," ","t","h","e"," ","p","e","r","i","o","d"," ","e","n","d","i","n","g"," ","F","e","b","r","u","a","r","y"," ","2","9",","," ","2","0","2","4">>>>)
BMOMastercard_PAGE_620 ==
    join(<<BMOMastercard_PAGE_NO_CLOSING, <<" "," "," ","T","o","t","a","l"," ","b","a","l","a","n","c","e"," "," "," ","$","6","2","0",".","0","0"," ">>>>)
RBCChequing_PAGE_380 ==
    join(<<RBCChequing_PAGE_NOTHING,
           <<" "," "," ","Y","o","u","r"," ","o","p","e","n","i","n","g"," ","b","a","l","a","n","c","e"," ","o","n"," ","J","a","n"," ","1",","," ","2","0","2","4"," "," "," ","$","5","0","0",".","0","0">>,
           <<" "," "," ","Y","o","u","r"," ","c","l","o","s","i","n","g"," ","b","a","l","a","n","c","e"," ","o","n"," ","J","a","n"," ","3","1",","," ","2","0","2","4"," ","="," "," "," ","$","3","8","0",".","0","0">>>>)

BMOChequing_PAGE_MARCH ==
    join(<<<<" "," ","B","M","O"," "," "," ","S","u","m","m","a","r","y"," ","o","f"," ","y","o","u","r"," ","a","c","c","o","u","n","t">>,
           <<" "," "," ","F","o","r"," ","t","h","e"," ","p","e","r","i","o","d"," ","e","n","d","i","n","g"," ","M","a","r","c","h"," ","3","1",","," ","2","0","2","4">>>>)
RBCMastercard_PAGE_499 ==
    join(<<<<" "," ","R","B","C"," ","M","a","s","t","e","r","c","a","r","d"," "," "," ","S","T","A","T","E","M","E","N","T"," ","F","R","O","M"," ","D","E","C"," ","3","1"," ","T","O"," ","J","A","N"," ","3","1",","," ","2","0","2","4">>,
           <<" "," "," ","P","r","e","v","i","o","u","s"," ","S","t","a","t","e","m","e","n","t"," ","B","a","l","a","n","c","e"," "," "," ","$","5","0","0",".","0","0">>,
           <<" "," "," ","N","E","W"," ","B","A","L","A","N","C","E"," "," "," ","$","4","9","9",".","0","0">>>>)

RBCChequing_PAGE_495 ==
    join(<<RBCChequing_PAGE_NOTHING,
           <<" "," "," ","Y","o","u","r"," ","o","p","e","n","i","n","g"," ","b","a","l","a","n","c","e"," ","o","n"," ","J","a","n"," ","1",","," ","2","0","2","4"," "," "," ","$","5","0","0",".","0","0">>,
           <<" "," "," ","Y","o","u","r"," ","c","l","o","s","i","n","g"," ","b","a","l","a","n","c","e"," ","o","n"," ","J","a","n"," ","3","1",","," ","2","0","2","4"," ","="," "," "," ","$","4","9","5",".","0","0">>>>)

BMOChequing_PAGE_APRIL ==
    join(<<<<" "," ","B","M","O"," "," "," ","S","u","m","m","a","r","y"," ","o","f"," ","y","o","u","r"," ","a","c","c","o","u","n","t">>,
           <<" "," "," ","F","o","r"," ","t","h","e"," ","p","e","r","i","o","d"," ","e","n","d","i","n","g"," ","A","p","r","i","l"," ","3","0",","," ","2","0","2","4">>>>)
BMOMastercard_PAGE_740 ==
    join(<<BMOMastercard_PAGE_NO_CLOSING, <<" "," "," ","T","o","t","a","l"," ","b","a","l","a","n","c","e"," "," "," ","$","7","4","0",".","0","0"," ">>>>)

\* Card statements that open and close with a credit balance: 500.00 CR, and
\* 380.00 CR after a purchase of 120.00.
BMOMastercard_PAGE_CR ==
    join(<<<<" "," ","B","M","O"," "," "," ","S","t","a","t","e","m","e","n","t"," ","d","a","t","e"," ","J","a","n","."," ","3","1",","," ","2","0","2","4">>,
           <<" "," "," ","P","r","e","v","i","o","u","s"," ","b","a","l","a","n","c","e",","," ","D","e","c","."," ","3","1",","," ","2","0","2","3"," "," "," ","$","5","0","0",".","0","0"," ","C","R">>,
           <<" "," "," ","T","o","t","a","l"," ","b","a","l","a","n","c","e"," "," "," ","$","3","8","0",".","0","0"," ","C","R">>>>)
OldBMOMastercard_PAGE_CR ==
    join(<<<<" "," ","B","M","O"," "," "," ","S","t","a","t","e","m","e","n","t"," ","D","a","t","e"," ","J","a","n","."," ","3","1",","," ","2","0","2","4">>,
           <<" "," "," ","P","r","e","v","i","o","u","s"," ","B","a","l","a","n","c","e",","," ","D","e","c","."," ","3","1",","," ","2","0","2","3"," "," "," ","$","5","0","0",".","0","0"," ","C","R">>,
           <<" "," "," ","N","e","w"," ","B","a","l","a","n","c","e",","," ","J","a","n","."," ","3","1",","," ","2","0","2","4"," "," "," ","$","3","8","0",".","0","0"," ","C","R">>>>)

\* Card statements that a payment of 30.00 brings from 30.00 to a balance of
\* 0.00; the second declares a total balance a second time.
BMOMastercard_PAGE_ZERO ==
    join(<<<<" "," ","B","M","O"," "," "," ","S","t","a","t","e","m","e","n","t"," ","d","a","t","e"," ","J","a","n","."," ","3","1",","," ","2","0","2","4">>,
           <<" "," "," ","P","r","e","v","i","o","u","s"," ","b","a","l","a","n","c","e",","," ","D","e","c","."," ","3","1",","," ","2","0","2","3"," "," "," ","$","3","0",".","0","0"," ">>,
           <<" "," "," ","T","o","t","a","l"," ","b","a","l","a","n","c","e"," "," "," ","$","0",".","0","0"," ">>>>)
BMOMastercard_PAGE_ZERO_TWICE ==
    join(<<BMOMastercard_PAGE_ZERO, <<" "," "," ","T","o","t","a","l"," ","b","a","l","a","n","c","e"," "," "," ","$","5","9","0",".","0","0"," ">>>>)

UNKNOWN_PAGE == <<" "," ","H","e","l","l","o">>
\* pages that pass a detector's first test only
UNKNOWN_BMO_PAGE == <<" "," ","B","M","O"," "," "," ","S","t","a","t","e","m","e","n","t">>
UNKNOWN_RBC_PAGE == <<" "," ","R","o","y","a","l"," ","B","a","n","k"," ","o","f"," ","C","a","n","a","d","a"," "," "," ","R","B","C">>

\* The statements of one institution and product: their first pages and the
\* lines of their pages.
Statements ==
    {[pages |-> {BMOChequing_PAGE, BMOChequing_PAGE_NO_YEAR},
      rows  |-> BMOChequing_LINES],
     [pages |-> {BMOMastercard_PAGE_590, BMOMastercard_PAGE_410,
                 BMOMastercard_PAGE_NO_CLOSING, BMOMastercard_PAGE_NOTHING,
                 BMOMastercard_PAGE_MALFORMED},
      rows  |-> BMOMastercard_LINES],
     [pages |-> {OldBMOMastercard_PAGE_590, OldBMOMastercard_PAGE_410,
                 OldBMOMastercard_PAGE_NOTHING},
      rows  |-> OldBMOMastercard_LINES],
     [pages |-> {RBCChequing_PAGE_500, RBCChequing_PAGE_410,
                 RBCChequing_PAGE_NOTHING},
      rows  |-> RBCChequing_LINES],
     [pages |-> {RBCMastercard_PAGE_590, RBCMastercard_PAGE_410,
                 RBCMastercard_PAGE_NOTHING},
      rows  |-> RBCMastercard_LINES],
     [pages |-> {BMOChequing_PAGE_FEBRUARY}, rows |-> BMOChequing_MORE_LINES],
     [pages |-> {BMOMastercard_PAGE_620}, rows |-> BMOMastercard_MORE_LINES],
     [pages |-> {RBCChequing_PAGE_380}, rows |-> RBCChequing_MORE_LINES],
     [pages |-> {BMOChequing_PAGE_MARCH}, rows |-> BMOChequing_MONTH_LINES],
     [pages |-> {RBCMastercard_PAGE_499}, rows |-> RBCMastercard_MONTH_LINES],
     [pages |-> {RBCChequing_PAGE_495}, rows |-> RBCChequing_SPLIT_LINES],
     [pages |-> {BMOChequing_PAGE_APRIL}, rows |-> BMOChequing_WRAPPED_LINES],
     [pages |-> {BMOMastercard_PAGE_740}, rows |-> BMOMastercard_WRAPPED_LINES],
     [pages |-> {BMOMastercard_PAGE_CR},
      rows  |-> {BMOMastercard_HEADER_LINE, BMOMastercard_CREDIT_LINE,
                 BMOMastercard_DEBIT_LINE}],
     [pages |-> {OldBMOMastercard_PAGE_CR}, rows |-> OldBMOMastercard_LINES],
     [pages |-> {BMOMastercard_PAGE_ZERO, BMOMastercard_PAGE_ZERO_TWICE},
      rows  |-> {BMOMastercard_HEADER_LINE, BMOMastercard_DEBIT_LINE,
                 BMOMastercard_TOTAL_LINE}],
     [pages |-> {UNKNOWN_PAGE, UNKNOWN_BMO_PAGE, UNKNOWN_RBC_PAGE},
      rows  |-> {UNKNOWN_PAGE}]}

\* ------------------------------------------------ construction and detection
\* cls(logger): the object after __init__, a record of its attributes (cls is
\* its class).
BMOChequing_init ==
    [cls |-> "BMOChequingPDFProcessor", year |-> None, closing_debit |-> None,
     closing_cretit |-> None]
BMOMastercard_init ==
    [cls |-> "BMOMastercardPDFProcessor", year |-> None,
     opening_balance |-> None, closing_balance |-> None]
\* OldBMOMastercardPDFProcessor inherits __init__ from BMOMastercardPDFProcessor
OldBMOMastercard_init ==
    [BMOMastercard_init EXCEPT !.cls = "OldBMOMastercardPDFProcessor"]
RBCChequing_init ==
    [cls |-> "RBCChequingPDFProcessor", year |-> None, opening_balance |-> None,
     closing_balance |-> None, last_transaction_date |-> None,
     pending_tx |-> None]
RBCMastercard_init ==
    [cls |-> "RBCMastercardPDFProcessor", opening_balance |-> None,
     closing_balance |-> None, year |-> None]

\* cls.try_create_processor(first_page, logger): Some(the object) or None
BMOChequing_try_create_processor(page) ==
    IF Contains(page, <<"B","M","O">>)
    THEN IF Contains(page, <<"S","u","m","m","a","r","y"," ","o","f"," ","y","o","u","r"," ","a","c","c","o","u","n","t">>)
         THEN Some(BMOChequing_init) ELSE None
    ELSE IF Contains(page, <<"S","u","m","m","a","r","y"," ","o","f"," ","y","o","u","r"," ","a","c","c","o","u","n","t">>)
         THEN Some(BMOChequing_init) ELSE None

BMOMastercard_try_create_processor(page) ==
    IF Contains(page, <<"B","M","O">>) /\ Contains(page, <<"S","t","a","t","e","m","e","n","t"," ","d","a","t","e">>)
    THEN Some(BMOMastercard_init) ELSE None

OldBMOMastercard_try_create_processor(page) ==
    IF Contains(page, <<"B","M","O">>) /\ Contains(page, <<"S","t","a","t","e","m","e","n","t"," ","D","a","t","e">>)
    THEN Some(OldBMOMastercard_init) ELSE None

RBCChequing_try_create_processor(page) ==
    IF search(RBCChequing_BANK, page) /\ search(RBCChequing_DEPOSITS, page)
    THEN Some(RBCChequing_init) ELSE None

RBCMastercard_try_create_processor(page) ==
    IF Contains(page, <<"R","B","C">>) /\ Contains(page, <<"M","a","s","t","e","r","c","a","r","d">>)
    THEN Some(RBCMastercard_init) ELSE None

\* The classes with the two BMO Mastercard ones exchanged (a variant used to
\* test properties).
PROCESSOR_CLASSES_newer_first ==
    <<"BMOMastercardPDFProcessor", "OldBMOMastercardPDFProcessor",
      "BMOChequingPDFProcessor", "RBCChequingPDFProcessor",
      "RBCMastercardPDFProcessor">>

\* The classes in the order PDFProcessor.process tries them.
PROCESSOR_CLASSES ==
    <<"OldBMOMastercardPDFProcessor", "BMOMastercardPDFProcessor",
      "BMOChequingPDFProcessor", "RBCChequingPDFProcessor",
      "RBCMastercardPDFProcessor">>

try_create_processor(cls, page) ==
    CASE cls = "OldBMOMastercardPDFProcessor" ->
             OldBMOMastercard_try_create_processor(page)
      [] cls = "BMOMastercardPDFProcessor" ->
             BMOMastercard_try_create_processor(page)
      [] cls = "BMOChequingPDFProcessor" ->
             BMOChequing_try_create_processor(page)
      [] cls = "RBCChequingPDFProcessor" ->
             RBCChequing_try_create_processor(page)
      [] cls = "RBCMastercardPDFProcessor" ->
             RBCMastercard_try_create_processor(page)

\* The loop of process over the classes: the object of the first class that
\* accepts the page, or None.
\* The object of the first class of the list that accepts the page; hits: the
\* positions of the classes that accept it.
FirstHit(hits, page) ==
    IF hits = {} THEN None
    ELSE try_create_processor(
             PROCESSOR_CLASSES[(CHOOSE i \in hits : \A j \in hits : i <= j)],
             page)

create_processor(page) ==
    FirstHit({i \in 1..Len(PROCESSOR_CLASSES) :
                 try_create_processor(PROCESSOR_CLASSES[i], page) # None}, page)

\* ------------------------------------------------- the matcher's answers
\* The regular expressions a class applies with re.fullmatch or re.match.
PatternsOf(cls) ==
    CASE cls = "BMOChequingPDFProcessor" ->
             {BMOChequing_TX_PATTERN, BMOChequing_YEAR, BMOChequing_HEADER}
      [] cls = "BMOMastercardPDFProcessor" ->
             {BMOMastercard_TX_PATTERN, BMOMastercard_OPENING,
              BMOMastercard_YEAR, BMOMastercard_CLOSING, BMOMastercard_HEADER,
              BMOMastercard_CARD_TOTAL}
      [] cls = "OldBMOMastercardPDFProcessor" ->
             {OldBMOMastercard_TX_PATTERN, OldBMOMastercard_OPENING,
              OldBMOMastercard_YEAR, OldBMOMastercard_CLOSING,
              OldBMOMastercard_HEADER, BMOMastercard_CARD_TOTAL}
      [] cls = "RBCChequingPDFProcessor" ->
             {RBCChequing_TX_PATTERN, RBCChequing_OPENING, RBCChequing_CLOSING,
              RBCChequing_HEADER}
      [] cls = "RBCMastercardPDFProcessor" ->
             {RBCMastercard_TX_PATTERN, RBCMastercard_YEAR,
              RBCMastercard_OPENING, RBCMastercard_CLOSING,
              RBCMastercard_HEADER, RBCMastercard_REFERENCE,
              RBCMastercard_NEW_BALANCE}

\* The texts a class applies them to when it reads the line l: the line, its
\* description column, and for RBCMastercardPDFProcessor next_line[:76].strip().
CutsOf(cls, l) ==
    CASE cls = "BMOChequingPDFProcessor" -> {l, Slice(l, 0, 68)}
      [] cls = "BMOMastercardPDFProcessor" -> {l, Slice(l, 0, 78)}
      [] cls = "OldBMOMastercardPDFProcessor" -> {l, Slice(l, 0, 85)}
      [] cls = "RBCChequingPDFProcessor" -> {l, Slice(l, 0, 60)}
      [] cls = "RBCMastercardPDFProcessor" ->
             {l, Slice(l, 0, 74), strip(Slice(l, 0, 76))}

\* Every (pattern, text) that reading a statement of Statements asks the
\* matcher about.
AskedOf(made, page, rows) ==
    IF made = None THEN {}
    ELSE PatternsOf(made[1].cls)
         \X ({split(page)[i] : i \in 1..Len(split(page))}
             \cup UNION {CutsOf(made[1].cls, l) : l \in rows})

Asked ==
    UNION {UNION {AskedOf(create_processor(page), page, st.rows) :
                      page \in st.pages} : st \in Statements}

\* The answers to those, worked out once.
Fullmatches == [q \in Asked |-> fullmatch(q[1], q[2])]
Matches == [q \in Asked |-> match(q[1], q[2])]

\* re.fullmatch(pat, s) and re.match(pat, s): Some(the captured pieces) or None
re_fullmatch(pat, s) ==
    IF <<pat, s>> \in Asked THEN Fullmatches[<<pat, s>>] ELSE fullmatch(pat, s)
re_match(pat, s) ==
    IF <<pat, s>> \in Asked THEN Matches[<<pat, s>>] ELSE match(pat, s)

\* ------------------------------------------------------------------ methods
\* What a method call leaves: the object as the call left it, and the value it
\* returned or the exception it raised.
Ok(self, v) == [self |-> self, raised |-> None, value |-> v]
Err(self, e) == [self |-> self, raised |-> Some(e), value |-> None]

\* bool(s) of a str | None: None and '' are falsy.
TruthyStr(o) == o # None /\ o[1] # <<>>

\* The least element of a non-empty set of integers.
Min(S) == CHOOSE i \in S : \A j \in S : i <= j

\* ---- BMOChequingPDFProcessor
\* One turn of the loop of process_first_page, on one line whose match
\* against YEAR is year_matcher: the object after it, and whether the loop
\* breaks.
BMOChequing_first_page_line(self, line, year_matcher) ==
    IF year_matcher = None THEN Ok(self, FALSE)
    ELSE Ok([self EXCEPT !.year = int(group(line, year_matcher, 1))], TRUE)

RECURSIVE BMOChequing_first_page_loop(_, _)
BMOChequing_first_page_loop(self, ls) ==
    IF ls = <<>> THEN Ok(self, FALSE)
    ELSE LET before == BMOChequing_first_page_loop(self, SubSeq(ls, 1, Len(ls) - 1))
         IN  IF before.value THEN before
             ELSE BMOChequing_first_page_line(
                      self, ls[Len(ls)],
                      re_fullmatch(BMOChequing_YEAR, ls[Len(ls)]))

\* The assertion that ends process_first_page.
BMOChequing_year_asserted(self) ==
    IF self.year # None THEN Ok(self, None)
    ELSE Err(self, "AssertionError: Year not found")

BMOChequing_process_first_page(self, text) ==
    BMOChequing_year_asserted(BMOChequing_first_page_loop(self, split(text)).self)

BMOChequing_should_begin_processing_transaction(self, line) ==
    re_fullmatch(BMOChequing_HEADER, line) # None

\* int(s) if s else None, where s is a sanitized amount, and whether that
\* raises ValueError.
AmountOrNone(s) == IF s = <<>> THEN None ELSE int(s)
AmountRaises(s) == s # <<>> /\ int(s) = None

\* prepare_new_transaction, given tx_matcher, the match of the line's
\* description column against TX_PATTERN, and next_matcher, that of the next
\* line's.
BMOChequing_row(self, line, next_line, tx_matcher, next_matcher) ==
    LET desc == Slice(line, 0, 68)
        note0 == strip(group(desc, tx_matcher, 3))
        next_desc == Slice(next_line[1], 0, 68)
        merged ==
            /\ TruthyStr(next_line)
            /\ next_matcher = None
            /\ strip(next_desc) # <<>>
            /\ strip(Slice(next_line[1], 70, 87)) = <<>>
            /\ strip(Slice(next_line[1], 90, 107)) = <<>>
            /\ strip(Slice(next_line[1], 109, 125)) = <<>>
        note == IF merged THEN note0 \o <<" ">> \o strip(next_desc) ELSE note0
        columns == <<sanitize_amount(Slice(line, 70, 87)),
                     sanitize_amount(Slice(line, 90, 107)),
                     sanitize_amount(Slice(line, 109, 125))>>
        credit == AmountOrNone(columns[1])
        debit == AmountOrNone(columns[2])
        balance == AmountOrNone(columns[3])
        month == index(MONTHS, lower(group(desc, tx_matcher, 1)))
        day == int(group(desc, tx_matcher, 2))
        tx_date == date(self.year[1], month[1] + 1, day[1])
        tx == Transaction(tx_date[1], tx_date[1], note, credit, debit, balance,
                          Some(note))
    IN  IF tx_matcher = None THEN Ok(self, None)
        ELSE IF Contains(note0, <<"O","p","e","n","i","n","g"," ","b","a","l","a","n","c","e">>) THEN Ok(self, None)
        ELSE IF \E i \in 1..3 : AmountRaises(columns[i])
             THEN Err(self, "ValueError: invalid literal for int()")
        ELSE IF Contains(note, <<"C","l","o","s","i","n","g"," ","t","o","t","a","l","s">>)
             THEN Ok(SetAttr(SetAttr(self, "closing_debit", debit),
                             "closing_credit", credit), None)
        ELSE IF month = None THEN Err(self, "ValueError: not in list")
        ELSE IF ~Truthy(self.year)
             THEN Err(self, "AssertionError: Statement year not set")
        ELSE IF tx_date = None THEN Err(self, "ValueError: day is out of range")
        ELSE IF tx = None THEN Err(self, "AssertionError: Invalid transaction")
        ELSE Ok(self, tx)

BMOChequing_prepare_new_transaction(self, line, next_line) ==
    BMOChequing_row(self, line, next_line,
                    re_fullmatch(BMOChequing_TX_PATTERN, Slice(line, 0, 68)),
                    re_fullmatch(BMOChequing_TX_PATTERN, Slice(next_line[1], 0, 68)))

BMOChequing_should_stop_processing_page(self, line) ==
    strip(line) = <<"c","o","n","t","i","n","u","e","d">>

BMOChequing_should_stop_processing_doc(self, line) ==
    Ok(self, Contains(line, <<"P","l","e","a","s","e"," ","r","e","p","o","r","t"," ","a","n","y"," ","e","r","r","o","r","s">>))

\* The loop of post_process_transactions: the totals, or the failed
\* assertion of its else branch.
RECURSIVE BMOChequing_totals(_)
BMOChequing_totals(txs) ==
    IF txs = <<>> THEN [total_credit |-> 0, total_debit |-> 0, bad |-> FALSE]
    ELSE LET t == txs[Len(txs)]
             before == BMOChequing_totals(SubSeq(txs, 1, Len(txs) - 1))
         IN  IF before.bad THEN before
             ELSE IF t.credit # None
                  THEN [before EXCEPT !.total_credit = @ + t.credit[1]]
             ELSE IF t.debit # None
                  THEN [before EXCEPT !.total_debit = @ + t.debit[1]]
             ELSE [before EXCEPT !.bad = TRUE]

\* post_process_transactions without its second assertion (a variant used to
\* test properties)
BMOChequing_post_process_credit_only(self, txs) ==
    LET sums == BMOChequing_totals(txs)
    IN  IF "closing_credit" \notin DOMAIN self
        THEN Err(self, "AttributeError: closing_credit")
        ELSE IF Some(sums.total_credit) # self.closing_credit
             THEN Err(self, "AssertionError: Credit mismatch")
        ELSE Ok(self, txs)

BMOChequing_post_process_transactions(self, txs) ==
    LET sums == BMOChequing_totals(txs)
    IN  IF sums.bad
        THEN Err(self, "AssertionError: Transaction has no credit or debit")
        ELSE IF "closing_credit" \notin DOMAIN self
             THEN Err(self, "AttributeError: closing_credit")
        ELSE IF Some(sums.total_credit) # self.closing_credit
             THEN Err(self, "AssertionError: Credit mismatch")
        ELSE IF Some(sums.total_debit) # self.closing_debit
             THEN Err(self, "AssertionError: Debit mismatch")
        ELSE Ok(self, txs)

\* ---- BMOMastercardPDFProcessor
\* -int(s.replace('CR', '')) if cr else int(s), for a sanitized amount s; None
\* stands for int's ValueError.
SignedAmount(s, cr) ==
    IF cr THEN (IF int(Replace(s, <<"C","R">>)) = None THEN None
                ELSE Some(0 - int(Replace(s, <<"C","R">>))[1]))
    ELSE int(s)

\* One turn of the loop of process_first_page, on one line whose matches
\* against the three patterns are o, y and c: the object after it, or the
\* ValueError of an int() in it. The opening amount is sanitized into a local
\* variable, the closing amount into self.closing_balance itself, which
\* therefore holds the sanitized text (a str) when int() rejects it.
BMOMastercard_first_page_line(self, line, o, y, c) ==
    LET opening == ~Truthy(self.opening_balance) /\ o # None
        s1 == IF opening
              THEN [self EXCEPT !.opening_balance =
                       SignedAmount(sanitize_amount(group(line, o, 1)),
                                    group(line, o, 2) # <<>>)]
              ELSE self
        s2 == IF ~Truthy(s1.year) /\ y # None
              THEN [s1 EXCEPT !.year = int(group(line, y, 1))]
              ELSE s1
        closing == ~Truthy(s2.closing_balance) /\ c # None
        s3 == IF closing
              THEN [s2 EXCEPT !.closing_balance =
                       SignedAmount(sanitize_amount(group(line, c, 1)),
                                    group(line, c, 2) # <<>>)]
              ELSE s2
    IN  IF opening /\ s1.opening_balance = None
        THEN Err(self, "ValueError: invalid literal for int()")
        ELSE IF closing /\ s3.closing_balance = None
             THEN Err([s2 EXCEPT !.closing_balance =
                          Some(sanitize_amount(group(line, c, 1)))],
                      "ValueError: invalid literal for int()")
        ELSE Ok(s3, None)

RECURSIVE BMOMastercard_first_page_loop(_, _)
BMOMastercard_first_page_loop(self, ls) ==
    IF ls = <<>> THEN Ok(self, None)
    ELSE LET before == BMOMastercard_first_page_loop(self, SubSeq(ls, 1, Len(ls) - 1))
         IN  IF before.raised # None THEN before
             ELSE BMOMastercard_first_page_line(
                      before.self, ls[Len(ls)],
                      re_fullmatch(BMOMastercard_OPENING, ls[Len(ls)]),
                      re_fullmatch(BMOMastercard_YEAR, ls[Len(ls)]),
                      re_fullmatch(BMOMastercard_CLOSING, ls[Len(ls)]))

BMOMastercard_process_first_page(self, text) ==
    BMOMastercard_first_page_loop(self, split(text))

BMOMastercard_should_begin_processing_transaction(self, line) ==
    re_fullmatch(BMOMastercard_HEADER, line) # None

\* What both BMO Mastercard classes do with a matched row: desc is its
\* description column, amount its sanitized amount, payee and memo the payee
\* and the note of the transaction.
BMOMastercard_row(self, desc, tx_matcher, amount, payee, memo) ==
    LET cr == Contains(amount, <<"C","R">>)
        value == IF cr THEN int(Replace(amount, <<"C","R">>)) ELSE int(amount)
        credit == IF cr THEN None ELSE value
        debit == IF cr THEN value ELSE None
        tx_month == index(MONTHS, lower(group(desc, tx_matcher, 1)))
        post_month == index(MONTHS, lower(group(desc, tx_matcher, 3)))
        tx_date == date(self.year[1], tx_month[1] + 1,
                        int(group(desc, tx_matcher, 2))[1])
        post_date == date(self.year[1], post_month[1] + 1,
                          int(group(desc, tx_matcher, 4))[1])
        tx == Transaction(tx_date[1], post_date[1], payee, credit, debit, None,
                          Some(memo))
    IN  IF value = None THEN Err(self, "ValueError: invalid literal for int()")
        ELSE IF tx_month = None \/ post_month = None
             THEN Err(self, "ValueError: not in list")
        ELSE IF ~Truthy(self.year)
             THEN Err(self, "AssertionError: Statement year not set")
        ELSE IF tx_date = None \/ post_date = None
             THEN Err(self, "ValueError: day is out of range")
        ELSE IF tx = None THEN Err(self, "AssertionError: Invalid transaction")
        ELSE Ok(self, tx)

\* prepare_new_transaction, given tx_matcher, the match of the line's
\* description column against TX_PATTERN, and next_matcher, that of the next
\* line's.
BMOMastercard_matched(self, line, next_line, tx_matcher, next_matcher) ==
    LET desc == Slice(line, 0, 78)
        note0 == strip(group(desc, tx_matcher, 5))
        next_desc == Slice(next_line[1], 0, 78)
        merged ==
            /\ TruthyStr(next_line)
            /\ next_matcher = None
            /\ strip(next_desc) # <<>>
            /\ strip(Slice(next_line[1], 78, 95)) = <<>>
        note == IF merged THEN note0 \o <<" ">> \o strip(next_desc) ELSE note0
    IN  IF tx_matcher = None THEN Ok(self, None)
        ELSE BMOMastercard_row(self, desc, tx_matcher,
                               sanitize_amount(Slice(line, 78, 95)),
                               sanitize_string(note), sanitize_string(note))

BMOMastercard_prepare_new_transaction(self, line, next_line) ==
    BMOMastercard_matched(
        self, line, next_line,
        re_fullmatch(BMOMastercard_TX_PATTERN, Slice(line, 0, 78)),
        re_fullmatch(BMOMastercard_TX_PATTERN, Slice(next_line[1], 0, 78)))

BMOMastercard_should_stop_processing_page(self, line) ==
    Contains(line, <<"(","c","o","n","t","i","n","u","e","d"," ","o","n"," ","n","e","x","t"," ","p","a","g","e",")">>)

\* should_stop_processing_doc, given closing_matcher, the match of the line
\* against the card total pattern.
BMOMastercard_card_total(self, line, closing_matcher) ==
    IF ~Truthy(self.closing_balance)
    THEN IF closing_matcher = None THEN Ok(self, FALSE)
         ELSE Ok([self EXCEPT !.closing_balance =
                     int(sanitize_amount(group(line, closing_matcher, 1)))],
                 TRUE)
    ELSE Ok(self, FALSE)

BMOMastercard_should_stop_processing_doc(self, line) ==
    BMOMastercard_card_total(self, line,
                             re_fullmatch(BMOMastercard_CARD_TOTAL, line))

\* post_process_transactions with credits subtracted and debits added (a
\* variant used to test properties)
BMOMastercard_post_process_payment_sign(self, txs) ==
    IF self.opening_balance = None
    THEN Err(self, "AssertionError: Opening balance not found")
    ELSE IF self.closing_balance = None
         THEN Err(self, "AssertionError: Closing balance not found")
    ELSE IF self.opening_balance[1] - SumCredit(txs) + SumDebit(txs)
            # self.closing_balance[1]
         THEN Err(self, "AssertionError: Balance mismatch")
    ELSE Ok(self, txs)

\* The loop of post_process_transactions: total_amount.
RECURSIVE BMOMastercard_total_amount(_)
BMOMastercard_total_amount(txs) ==
    IF txs = <<>> THEN 0
    ELSE LET t == txs[Len(txs)]
             before == BMOMastercard_total_amount(SubSeq(txs, 1, Len(txs) - 1))
         IN  IF t.credit # None THEN before + t.credit[1]
             ELSE IF t.debit # None THEN before - t.debit[1]
             ELSE before

BMOMastercard_post_process_transactions(self, txs) ==
    IF self.opening_balance = None
    THEN Err(self, "AssertionError: Opening balance not found")
    ELSE IF self.closing_balance = None
         THEN Err(self, "AssertionError: Closing balance not found")
    ELSE IF \E i \in 1..Len(txs) : txs[i].credit = None /\ txs[i].debit = None
         THEN Err(self, "AssertionError: Transaction has no credit or debit")
    ELSE IF BMOMastercard_total_amount(txs) + self.opening_balance[1]
            # self.closing_balance[1]
         THEN Err(self, "AssertionError: Balance mismatch")
    ELSE Ok(self, txs)

\* ---- OldBMOMastercardPDFProcessor
OldBMOMastercard_first_page_line(self, line, y, o, c) ==
    LET s1 == IF ~Truthy(self.year) /\ y # None
              THEN [self EXCEPT !.year = int(group(line, y, 1))]
              ELSE self
        opening == ~Truthy(s1.opening_balance) /\ o # None
        s2 == IF opening
              THEN [s1 EXCEPT !.opening_balance =
                       int(sanitize_amount(group(line, o, 1)))]
              ELSE s1
        closing == ~Truthy(s2.closing_balance) /\ c # None
        s3 == IF closing
              THEN [s2 EXCEPT !.closing_balance =
                       SignedAmount(sanitize_amount(group(line, c, 1)),
                                    strip(group(line, c, 2)) = <<"C","R">>)]
              ELSE s2
    IN  IF opening /\ s2.opening_balance = None
        THEN Err(s1, "ValueError: invalid literal for int()")
        ELSE IF closing /\ s3.closing_balance = None
             THEN Err(s2, "ValueError: invalid literal for int()")
        ELSE Ok(s3, None)

RECURSIVE OldBMOMastercard_first_page_loop(_, _)
OldBMOMastercard_first_page_loop(self, ls) ==
    IF ls = <<>> THEN Ok(self, None)
    ELSE LET before == OldBMOMastercard_first_page_loop(self, SubSeq(ls, 1, Len(ls) - 1))
         IN  IF before.raised # None THEN before
             ELSE OldBMOMastercard_first_page_line(
                      before.self, ls[Len(ls)],
                      re_fullmatch(OldBMOMastercard_YEAR, ls[Len(ls)]),
                      re_fullmatch(OldBMOMastercard_OPENING, ls[Len(ls)]),
                      re_fullmatch(OldBMOMastercard_CLOSING, ls[Len(ls)]))

\* The assertions that end process_first_page in the three classes that make
\* them.
MetadataAsserted(self) ==
    IF ~Truthy(self.year)
    THEN Err(self, "AssertionError: Statement year not set")
    ELSE IF self.opening_balance = None
         THEN Err(self, "AssertionError: Opening balance not set")
    ELSE IF self.closing_balance = None
         THEN Err(self, "AssertionError: Closing balance not set")
    ELSE Ok(self, None)

\* process_first_page after its loop, whose outcome is looped.
AssertedAfter(looped) ==
    IF looped.raised # None THEN looped ELSE MetadataAsserted(looped.self)

OldBMOMastercard_process_first_page(self, text) ==
    AssertedAfter(OldBMOMastercard_first_page_loop(self, split(text)))

OldBMOMastercard_should_begin_processing_transaction(self, line) ==
    re_fullmatch(OldBMOMastercard_HEADER, line) # None

\* prepare_new_transaction, given tx_matcher, the match of the line's
\* description column against TX_PATTERN.
OldBMOMastercard_matched(self, line, tx_matcher) ==
    LET desc == Slice(line, 0, 85)
        note == sanitize_string(strip(group(desc, tx_matcher, 5)))
    IN  IF tx_matcher = None THEN Ok(self, None)
        ELSE BMOMastercard_row(self, desc, tx_matcher,
                               sanitize_amount(Slice(line, 118, 135)), note,
                               note \o <<" ">> \o strip(Slice(line, 88, 115)))

OldBMOMastercard_prepare_new_transaction(self, line, next_line) ==
    OldBMOMastercard_matched(
        self, line, re_fullmatch(OldBMOMastercard_TX_PATTERN, Slice(line, 0, 85)))

\* ---- RBCChequingPDFProcessor
\* One turn of the loop of process_first_page, on one line whose matches
\* against the two patterns are o and c.
RBCChequing_first_page_line(self, line, o, c) ==
    LET opening == ~Truthy(self.opening_balance) /\ o # None
        s1 == IF opening
              THEN [self EXCEPT !.opening_balance =
                       int(sanitize_amount(group(line, o, 1)))]
              ELSE self
        closing == ~Truthy(s1.closing_balance) /\ c # None
        s2 == IF closing
              THEN [s1 EXCEPT !.closing_balance =
                                  int(sanitize_amount(group(line, c, 4))),
                              !.year = int(group(line, c, 3))]
              ELSE s1
    IN  IF opening /\ s1.opening_balance = None
        THEN Err(self, "ValueError: invalid literal for int()")
        ELSE IF closing /\ s2.closing_balance = None
             THEN Err(s1, "ValueError: invalid literal for int()")
        ELSE Ok(s2, None)

RECURSIVE RBCChequing_first_page_loop(_, _)
RBCChequing_first_page_loop(self, ls) ==
    IF ls = <<>> THEN Ok(self, None)
    ELSE LET before == RBCChequing_first_page_loop(self, SubSeq(ls, 1, Len(ls) - 1))
         IN  IF before.raised # None THEN before
             ELSE RBCChequing_first_page_line(
                      before.self, ls[Len(ls)],
                      re_fullmatch(RBCChequing_OPENING, ls[Len(ls)]),
                      re_fullmatch(RBCChequing_CLOSING, ls[Len(ls)]))

RBCChequing_process_first_page(self, text) ==
    AssertedAfter(RBCChequing_first_page_loop(self, split(text)))

RBCChequing_should_begin_processing_transaction(self, line) ==
    re_fullmatch(RBCChequing_HEADER, line) # None

\* pending_tx.payee += ' ' + note; pending_tx.note += ' ' + note
Extended(tx, note) ==
    [tx EXCEPT !.payee = @ \o <<" ">> \o note, !.note = Some(@[1] \o <<" ">> \o note)]

\* tx.payee = sanitize_string(tx.payee); tx.note = sanitize_string(tx.note)
Sanitized(tx) ==
    [tx EXCEPT !.payee = sanitize_string(@), !.note = Some(sanitize_string(@[1]))]

\* prepare_new_transaction, given tx_matcher, the match of the line's
\* description column against TX_PATTERN.
RBCChequing_matched(self, line, tx_matcher) ==
    LET desc == Slice(line, 0, 60)
        credit == Slice(line, 68, 85)
        debit == Slice(line, 88, 110)
        tx_month == index(MONTHS, lower(group(desc, tx_matcher, 2)))
        note == IF tx_matcher # None THEN strip(group(desc, tx_matcher, 3))
                ELSE strip(desc)
        tx_date == IF tx_matcher # None
                   THEN date(self.year[1], tx_month[1] + 1,
                             int(group(desc, tx_matcher, 1))[1])
                   ELSE self.last_transaction_date
        amount == IF strip(credit) # <<>> THEN int(sanitize_amount(credit))
                  ELSE int(sanitize_amount(debit))
        credit_v == IF strip(credit) # <<>> THEN amount ELSE None
        debit_v == IF strip(credit) # <<>> THEN None ELSE amount
        flushed == [Extended(self.pending_tx[1], note)
                       EXCEPT !.credit = credit_v, !.debit = debit_v]
        made == Transaction(tx_date[1], tx_date[1], note, credit_v, debit_v,
                            None, Some(note))
    IN  IF Contains(line, <<"N","o"," ","a","c","t","i","v","i","t","y"," ","f","o","r"," ","t","h","i","s"," ","p","e","r","i","o","d">>)
           \/ Contains(line, <<"O","p","e","n","i","n","g"," ","B","a","l","a","n","c","e">>)
        THEN Ok(self, None)
        ELSE IF tx_matcher # None /\ tx_month = None
             THEN Err(self, "ValueError: not in list")
        ELSE IF tx_matcher # None /\ ~Truthy(self.year)
             THEN Err(self, "AssertionError: Statement year not set")
        ELSE IF tx_matcher # None /\ tx_date = None
             THEN Err(self, "ValueError: day is out of range")
        ELSE IF tx_matcher = None /\ self.last_transaction_date = None
             THEN Err(self, "AssertionError: Last transaction date not set")
        ELSE IF strip(credit) = <<>> /\ strip(debit) = <<>>
             THEN Ok([self EXCEPT
                        !.pending_tx =
                            IF self.pending_tx # None
                            THEN Some(Extended(self.pending_tx[1], note))
                            ELSE Transaction(tx_date[1], tx_date[1], note,
                                             Some(0), None, None, Some(note)),
                        !.last_transaction_date = tx_date],
                     None)
        ELSE IF amount = None
             THEN Err(self, "ValueError: invalid literal for int()")
        ELSE IF self.pending_tx # None
             THEN IF post_init(flushed)
                  THEN Ok([self EXCEPT !.pending_tx = None,
                                       !.last_transaction_date = tx_date],
                          Some(Sanitized(flushed)))
                  ELSE Err([self EXCEPT !.pending_tx = Some(flushed)],
                           "AssertionError: Invalid transaction")
        ELSE IF made = None
             THEN Err(self, "AssertionError: Invalid transaction")
        ELSE Ok([self EXCEPT !.last_transaction_date = tx_date],
                Some(Sanitized(made[1])))

RBCChequing_prepare_new_transaction(self, line, next_line) ==
    RBCChequing_matched(
        self, line, re_fullmatch(RBCChequing_TX_PATTERN, Slice(line, 0, 60)))

RBCChequing_should_stop_processing_page(self, line) ==
    \/ Contains(line, <<"P","l","e","a","s","e"," ","c","h","e","c","k"," ","t","h","i","s"," ","A","c","c","o","u","n","t"," ","S","t","a","t","e","m","e","n","t"," ","w","i","t","h","o","u","t"," ","d","e","l","a","y">>)
    \/ Contains(line, <<"C","l","o","s","i","n","g"," ","B","a","l","a","n","c","e">>)
    \/ Contains(line, <<"N","o"," ","a","c","t","i","v","i","t","y"," ","f","o","r"," ","t","h","i","s"," ","p","e","r","i","o","d">>)

RBCChequing_should_stop_processing_doc(self, line) == Ok(self, FALSE)

\* The loop of post_process_transactions: total_amount.
RECURSIVE RBCChequing_total_amount(_)
RBCChequing_total_amount(txs) ==
    IF txs = <<>> THEN 0
    ELSE LET t == txs[Len(txs)]
             before == RBCChequing_total_amount(SubSeq(txs, 1, Len(txs) - 1))
         IN  IF t.credit # None THEN before - t.credit[1]
             ELSE IF t.debit # None THEN before + t.debit[1]
             ELSE before

\* post_process_transactions with the sign convention of the card statements
\* (a variant used to test properties)
RBCChequing_post_process_card_signs(self, txs) ==
    IF self.opening_balance = None
    THEN Err(self, "AssertionError: Opening balance not found")
    ELSE IF self.closing_balance = None
         THEN Err(self, "AssertionError: Closing balance not found")
    ELSE IF self.opening_balance[1] + SumCredit(txs) - SumDebit(txs)
            # self.closing_balance[1]
         THEN Err(self, "AssertionError: Balance mismatch")
    ELSE Ok(self, txs)

RBCChequing_post_process_transactions(self, txs) ==
    IF self.opening_balance = None
    THEN Err(self, "AssertionError: Opening balance not found")
    ELSE IF self.closing_balance = None
         THEN Err(self, "AssertionError: Closing balance not found")
    ELSE IF \E i \in 1..Len(txs) : txs[i].credit = None /\ txs[i].debit = None
         THEN Err(self, "AssertionError: Transaction has no credit or debit")
    ELSE IF RBCChequing_total_amount(txs) + self.opening_balance[1]
            # self.closing_balance[1]
         THEN Err(self, "AssertionError: Balance mismatch")
    ELSE Ok(self, txs)

\* ---- RBCMastercardPDFProcessor
\* One turn of the loop of process_first_page, on one line whose matches
\* against the three patterns are y, o and c.
RBCMastercard_first_page_line(self, line, y, o, c) ==
    LET s1 == IF ~Truthy(self.year) /\ y # None
              THEN [self EXCEPT !.year = int(group(line, y, 6))]
              ELSE self
        opening == ~Truthy(s1.opening_balance) /\ o # None
        s2 == IF opening
              THEN [s1 EXCEPT !.opening_balance =
                       int(sanitize_amount(group(line, o, 1)))]
              ELSE s1
        closing == ~Truthy(s2.closing_balance) /\ c # None
        s3 == IF closing
              THEN [s2 EXCEPT !.closing_balance =
                       int(sanitize_amount(group(line, c, 1)))]
              ELSE s2
    IN  IF opening /\ s2.opening_balance = None
        THEN Err(s1, "ValueError: invalid literal for int()")
        ELSE IF closing /\ s3.closing_balance = None
             THEN Err(s2, "ValueError: invalid literal for int()")
        ELSE Ok(s3, None)

RECURSIVE RBCMastercard_first_page_loop(_, _)
RBCMastercard_first_page_loop(self, ls) ==
    IF ls = <<>> THEN Ok(self, None)
    ELSE LET before == RBCMastercard_first_page_loop(self, SubSeq(ls, 1, Len(ls) - 1))
         IN  IF before.raised # None THEN before
             ELSE RBCMastercard_first_page_line(
                      before.self, ls[Len(ls)],
                      re_match(RBCMastercard_YEAR, ls[Len(ls)]),
                      re_match(RBCMastercard_OPENING, ls[Len(ls)]),
                      re_match(RBCMastercard_CLOSING, ls[Len(ls)]))

RBCMastercard_process_first_page(self, text) ==
    AssertedAfter(RBCMastercard_first_page_loop(self, split(text)))

RBCMastercard_should_begin_processing_transaction(self, line) ==
    re_match(RBCMastercard_HEADER, line) # None

\* prepare_new_transaction, given m, the match of the line's description
\* column against TX_PATTERN, whether its payee is exempt from the reference
\* lookup, and whether the next line holds a reference.
RBCMastercard_row(self, line, next_line, m, exempt, referenced) ==
    LET desc == Slice(line, 0, 74)
        tx_month == index(MONTHS, lower(group(desc, m, 1)))
        tx_date == date(self.year[1], tx_month[1] + 1, int(group(desc, m, 2))[1])
        post_month == index(MONTHS, lower(group(desc, m, 3)))
        post_date == date(self.year[1], post_month[1] + 1,
                          int(group(desc, m, 4))[1])
        payee == strip(group(desc, m, 5))
        reference == strip(Slice(next_line[1], 0, 76))
        note == IF exempt THEN None ELSE Some(reference)
        amount == int(sanitize_amount(Slice(line, 76, 93)))
        credit == IF amount[1] > 0 THEN amount ELSE None
        debit == IF amount[1] > 0 THEN None ELSE Some(0 - amount[1])
        tx == Transaction(tx_date[1], post_date[1], sanitize_string(payee),
                          credit, debit, None, note)
    IN  IF ~Truthy(self.year)
        THEN Err(self, "AssertionError: Statement year not set")
        ELSE IF m = None THEN Ok(self, None)
        ELSE IF tx_month = None THEN Err(self, "ValueError: not in list")
        ELSE IF tx_date = None THEN Err(self, "ValueError: day is out of range")
        ELSE IF post_month = None THEN Err(self, "ValueError: not in list")
        ELSE IF post_date = None THEN Err(self, "ValueError: day is out of range")
        ELSE IF ~exempt /\ (~TruthyStr(next_line) \/ ~referenced)
             THEN Err(self, "ValueError: No transaction reference found")
        ELSE IF amount = None
             THEN Err(self, "ValueError: invalid literal for int()")
        ELSE IF tx = None THEN Err(self, "AssertionError: Invalid transaction")
        ELSE Ok(self, tx)

\* prepare_new_transaction taking every payee as exempt from the reference
\* lookup (a variant used to test properties)
RBCMastercard_matched_exempt(self, line, next_line, m, payee) ==
    RBCMastercard_row(self, line, next_line, m, TRUE, TRUE)

\* prepare_new_transaction, given m and payee, the payee of a matched row.
RBCMastercard_matched(self, line, next_line, m, payee) ==
    RBCMastercard_row(
        self, line, next_line, m,
        \/ re_match(RBCMastercard_PREMIUM, payee) # None
        \/ re_match(RBCMastercard_PAYMENT, payee) # None,
        re_match(RBCMastercard_REFERENCE, strip(Slice(next_line[1], 0, 76)))
            # None)

\* The payee of a row whose description column matched TX_PATTERN with m.
RBCMastercard_payee(desc, m) == strip(group(desc, m, 5))

RBCMastercard_tx_matcher(self, line, next_line, m) ==
    RBCMastercard_matched(self, line, next_line, m,
                          RBCMastercard_payee(Slice(line, 0, 74), m))

RBCMastercard_prepare_new_transaction(self, line, next_line) ==
    RBCMastercard_tx_matcher(
        self, line, next_line,
        re_match(RBCMastercard_TX_PATTERN, Slice(line, 0, 74)))

RBCMastercard_should_stop_processing_page(self, line) == FALSE

RBCMastercard_should_stop_processing_doc(self, line) ==
    Ok(self, re_match(RBCMastercard_NEW_BALANCE, line) # None)

\* post_process_transactions without its last assertion (a variant used to
\* test properties)
RBCMastercard_post_process_unbalanced(self, txs) ==
    IF self.opening_balance = None
    THEN Err(self, "AssertionError: Opening balance not set")
    ELSE IF self.closing_balance = None
         THEN Err(self, "AssertionError: Closing balance not set")
    ELSE Ok(self, txs)

\* The loop of post_process_transactions: new_balance.
RECURSIVE RBCMastercard_new_balance(_, _)
RBCMastercard_new_balance(self, txs) ==
    IF txs = <<>> THEN self.opening_balance[1]
    ELSE LET tx == txs[Len(txs)]
             before == RBCMastercard_new_balance(self, SubSeq(txs, 1, Len(txs) - 1))
         IN  IF tx.credit # None THEN before + tx.credit[1]
             ELSE IF tx.debit # None THEN before - tx.debit[1]
             ELSE before

RBCMastercard_post_process_transactions(self, txs) ==
    IF self.opening_balance = None
    THEN Err(self, "AssertionError: Opening balance not set")
    ELSE IF self.closing_balance = None
         THEN Err(self, "AssertionError: Closing balance not set")
    ELSE IF RBCMastercard_new_balance(self, txs) # self.closing_balance[1]
         THEN Err(self, "AssertionError: Balance mismatch")
    ELSE Ok(self, txs)

\* ---- the method of the object's class
process_first_page(self, text) ==
    CASE self.cls = "BMOChequingPDFProcessor" ->
             BMOChequing_process_first_page(self, text)
      [] self.cls = "BMOMastercardPDFProcessor" ->
             BMOMastercard_process_first_page(self, text)
      [] self.cls = "OldBMOMastercardPDFProcessor" ->
             OldBMOMastercard_process_first_page(self, text)
      [] self.cls = "RBCChequingPDFProcessor" ->
             RBCChequing_process_first_page(self, text)
      [] self.cls = "RBCMastercardPDFProcessor" ->
             RBCMastercard_process_first_page(self, text)

should_begin_processing_transaction(self, line) ==
    CASE self.cls = "BMOChequingPDFProcessor" ->
             BMOChequing_should_begin_processing_transaction(self, line)
      [] self.cls = "BMOMastercardPDFProcessor" ->
             BMOMastercard_should_begin_processing_transaction(self, line)
      [] self.cls = "OldBMOMastercardPDFProcessor" ->
             OldBMOMastercard_should_begin_processing_transaction(self, line)
      [] self.cls = "RBCChequingPDFProcessor" ->
             RBCChequing_should_begin_processing_transaction(self, line)
      [] self.cls = "RBCMastercardPDFProcessor" ->
             RBCMastercard_should_begin_processing_transaction(self, line)

prepare_new_transaction(self, line, next_line) ==
    CASE self.cls = "BMOChequingPDFProcessor" ->
             BMOChequing_prepare_new_transaction(self, line, next_line)
      [] self.cls = "BMOMastercardPDFProcessor" ->
             BMOMastercard_prepare_new_transaction(self, line, next_line)
      [] self.cls = "OldBMOMastercardPDFProcessor" ->
             OldBMOMastercard_prepare_new_transaction(self, line, next_line)
      [] self.cls = "RBCChequingPDFProcessor" ->
             RBCChequing_prepare_new_transaction(self, line, next_line)
      [] self.cls = "RBCMastercardPDFProcessor" ->
             RBCMastercard_prepare_new_transaction(self, line, next_line)

\* OldBMOMastercardPDFProcessor inherits the next three from
\* BMOMastercardPDFProcessor.
should_stop_processing_page(self, line) ==
    CASE self.cls = "BMOChequingPDFProcessor" ->
             BMOChequing_should_stop_processing_page(self, line)
      [] self.cls \in {"BMOMastercardPDFProcessor",
                       "OldBMOMastercardPDFProcessor"} ->
             BMOMastercard_should_stop_processing_page(self, line)
      [] self.cls = "RBCChequingPDFProcessor" ->
             RBCChequing_should_stop_processing_page(self, line)
      [] self.cls = "RBCMastercardPDFProcessor" ->
             RBCMastercard_should_stop_processing_page(self, line)

should_stop_processing_doc(self, line) ==
    CASE self.cls = "BMOChequingPDFProcessor" ->
             BMOChequing_should_stop_processing_doc(self, line)
      [] self.cls \in {"BMOMastercardPDFProcessor",
                       "OldBMOMastercardPDFProcessor"} ->
             BMOMastercard_should_stop_processing_doc(self, line)
      [] self.cls = "RBCChequingPDFProcessor" ->
             RBCChequing_should_stop_processing_doc(self, line)
      [] self.cls = "RBCMastercardPDFProcessor" ->
             RBCMastercard_should_stop_processing_doc(self, line)

\* a post_process_transactions that returns the list last transaction first
\* (a variant used to test properties)
post_process_reversed(self, txs) ==
    Ok(self, [i \in 1..Len(txs) |-> txs[Len(txs) + 1 - i]])

\* a post_process_transactions that returns the list as it is (a variant used
\* to test properties)
post_process_unchecked(self, txs) == Ok(self, txs)

post_process_transactions(self, txs) ==
    CASE self.cls = "BMOChequingPDFProcessor" ->
             BMOChequing_post_process_transactions(self, txs)
      [] self.cls \in {"BMOMastercardPDFProcessor",
                       "OldBMOMastercardPDFProcessor"} ->
             BMOMastercard_post_process_transactions(self, txs)
      [] self.cls = "RBCChequingPDFProcessor" ->
             RBCChequing_post_process_transactions(self, txs)
      [] self.cls = "RBCMastercardPDFProcessor" ->
             RBCMastercard_post_process_transactions(self, txs)

\* --------------------------------------------------- PDFProcessor.process
\* The lines the pages of the document may hold: those of the statements that
\* its first page belongs to.
RowsOf == [page \in UNION {st.pages : st \in Statements} |->
              UNION {st.rows : st \in {x \in Statements : page \in x.pages}}]

\* What follows the line the loop is at: the next line of the page, or None at
\* the end of the page.  A document holds MaxLines lines at most.
Following(count, page) ==
    {None} \cup (IF count < MaxLines THEN {Some(l) : l \in RowsOf[page]} ELSE {})

\* The lines that may come next.
Offered == Following(n_lines, first_page)

\* a print that writes nothing (a variant used to test properties)
Printed_nothing(out, text) == out

\* print(first_page, file=sys.stderr)
Printed(out, text) == out \o text \o <<"\n">>

\* The state when process starts, with the first page of the document read.
Init ==
    /\ pc = "detect"
    /\ first_page \in DOMAIN RowsOf
    /\ processor = None
    /\ transactions = <<>>
    /\ page_number = 0
    /\ lines = <<>>
    /\ page_transactions = <<>>
    /\ n_lines = 0
    /\ stderr = <<>>
    /\ log = {}
    /\ error = None
    /\ result = None

\* The loop over the processor classes; with no processor, the first page is
\* printed and ValueError raised.
Detect ==
    /\ pc = "detect"
    /\ processor' = create_processor(first_page)
    /\ IF processor' = None
       THEN /\ stderr' = Printed(stderr, first_page)
            /\ pc' = "failed"
            /\ error' = Some("ValueError: No idea what this is")
       ELSE /\ pc' = "first_page"
            /\ UNCHANGED <<stderr, error>>
    /\ UNCHANGED <<first_page, transactions, page_number, lines,
                   page_transactions, n_lines, log, result>>

\* processor.process_first_page(first_page); an exception is raised again
\* after the first page is printed.
FirstPageDone(done) ==
    /\ processor' = Some(done.self)
    /\ IF done.raised # None
       THEN /\ stderr' = Printed(stderr, first_page)
            /\ pc' = "failed"
            /\ error' = done.raised
       ELSE /\ pc' = "pages"
            /\ UNCHANGED <<stderr, error>>

ProcessFirstPage ==
    /\ pc = "first_page"
    /\ FirstPageDone(process_first_page(processor[1], first_page))
    /\ UNCHANGED <<first_page, transactions, page_number, lines,
                   page_transactions, n_lines, log, result>>

\* The loop over pdf.pages reaches the next page and process_page starts on
\* its text, which has a first line.
NextPage ==
    /\ pc = "pages"
    /\ page_number < MaxPages
    /\ \E nxt \in Offered \ {None} : lines' = nxt
    /\ page_number' = page_number + 1
    /\ n_lines' = n_lines + 1
    /\ page_transactions' = <<>>
    /\ pc' = "seek"
    /\ UNCHANGED <<first_page, processor, transactions, stderr, log, error,
                   result>>

\* a first loop that raises when the page ends without a header row (a variant
\* used to test properties)
Sought_fatal(nxt, began) ==
    /\ lines' = nxt
    /\ n_lines' = IF nxt = None THEN n_lines ELSE n_lines + 1
    /\ pc' = IF nxt = None THEN (IF began THEN "pages" ELSE "failed")
             ELSE IF began THEN "scan" ELSE "seek"
    /\ log' = IF nxt = None /\ ~began
              THEN log \cup {"No transaction found on current page"}
              ELSE log

\* One turn of the first loop of process_page, at the line lines[1]: on the
\* header row the second loop starts after it; at the end of the page
\* process_page returns no transaction.
Sought(nxt, began) ==
    /\ lines' = nxt
    /\ n_lines' = IF nxt = None THEN n_lines ELSE n_lines + 1
    /\ pc' = IF nxt = None THEN "pages"
             ELSE IF began THEN "scan" ELSE "seek"
    /\ log' = IF nxt = None /\ ~began
              THEN log \cup {"No transaction found on current page"}
              ELSE log

SeekLine ==
    /\ pc = "seek"
    /\ \E nxt \in Offered :
          Sought(nxt, should_begin_processing_transaction(processor[1], lines[1]))
    /\ UNCHANGED <<first_page, processor, transactions, page_number,
                   page_transactions, stderr, error, result>>

\* process_page returns: transactions.extend(...) in process
Returned(txs) ==
    /\ transactions' = transactions \o txs
    /\ page_transactions' = <<>>
    /\ lines' = <<>>
    /\ pc' = "pages"
    /\ UNCHANGED <<n_lines, error>>

\* a next_line that is the next line whether it stops the page or not (a
\* variant used to test properties)
NextLine_any(self, nxt) == nxt

\* next_line of process_page: None at the end of the page and when the next
\* line stops the page.
NextLine(self, nxt) ==
    IF nxt # None /\ ~should_stop_processing_page(self, nxt[1]) THEN nxt
    ELSE None

\* page_transactions after prepare_new_transaction left made.
Appended(made) ==
    IF made.value # None THEN Append(page_transactions, made.value[1])
    ELSE page_transactions

\* The end of a turn of the second loop, where nxt follows the line and
\* prepare_new_transaction left made.
Prepared(nxt, made) ==
    /\ processor' = Some(made.self)
    /\ log' = log
    /\ IF made.raised # None
       THEN /\ pc' = "failed"
            /\ error' = made.raised
            /\ UNCHANGED <<transactions, page_transactions, lines, n_lines>>
       ELSE IF nxt = None THEN Returned(Appended(made))
       ELSE /\ page_transactions' = Appended(made)
            /\ lines' = nxt
            /\ n_lines' = n_lines + 1
            /\ UNCHANGED <<pc, transactions, error>>

\* A turn of the second loop at line, where should_stop_processing_doc left
\* stop_doc.
Scanned(line, stop_doc) ==
    IF stop_doc.value
    THEN /\ log' = log \cup {"Document processing stopped"}
         /\ processor' = Some(stop_doc.self)
         /\ Returned(page_transactions)
    ELSE IF should_stop_processing_page(stop_doc.self, line)
    THEN /\ log' = log \cup {"Page processing stopped"}
         /\ processor' = Some(stop_doc.self)
         /\ Returned(page_transactions)
    ELSE \E nxt \in Offered :
            Prepared(nxt, prepare_new_transaction(
                              stop_doc.self, line, NextLine(stop_doc.self, nxt)))

\* One turn of the second loop of process_page, at the line lines[1].
ScanLine ==
    /\ pc = "scan"
    /\ Scanned(lines[1], should_stop_processing_doc(processor[1], lines[1]))
    /\ UNCHANGED <<first_page, page_number, stderr, result>>

\* After the last page: return processor.post_process_transactions(transactions)
PostProcessed(done) ==
    /\ processor' = Some(done.self)
    /\ IF done.raised # None
       THEN /\ pc' = "failed"
            /\ error' = done.raised
            /\ UNCHANGED result
       ELSE /\ pc' = "returned"
            /\ result' = Some(done.value)
            /\ UNCHANGED error

PostProcess ==
    /\ pc = "pages"
    /\ page_number >= 1
    /\ PostProcessed(post_process_transactions(processor[1], transactions))
    /\ UNCHANGED <<first_page, transactions, page_number, lines,
                   page_transactions, n_lines, stderr, log>>

Next ==
    \/ Detect
    \/ ProcessFirstPage
    \/ NextPage
    \/ SeekLine
    \/ ScanLine
    \/ PostProcess

Spec == Init /\ [][Next]_vars

\* ------------------------------------------------------------------ properties
\* the Transaction objects the run holds: collected, on the current page, returned
Produced ==
    {transactions[i] : i \in 1..Len(transactions)}
    \cup {page_transactions[i] : i \in 1..Len(page_transactions)}
    \cup (IF result = None THEN {}
          ELSE {result[1][i] : i \in 1..Len(result[1])})

CardClasses ==
    {"BMOMastercardPDFProcessor", "OldBMOMastercardPDFProcessor",
     "RBCMastercardPDFProcessor"}

\* the page loop is between pages, where process may go on to post-processing
BetweenPages == pc = "pages" /\ page_number >= 1

\* C1: every transaction process holds or returns has exactly one of credit and
\* debit set, and the set one is not negative; this includes the RBC chequing
\* transactions completed from the buffered pending transaction.
C1_OneAmountPerTransaction ==
    \A t \in Produced :
        /\ (t.credit = None) # (t.debit = None)
        /\ t.credit # None => t.credit[1] >= 0
        /\ t.debit # None => t.debit[1] >= 0

\* process has returned an RBC chequing list holding a transaction that was
\* buffered on one line and completed with the amount of a later line
C1_Witness ==
    /\ pc = "returned"
    /\ processor[1].cls = "RBCChequingPDFProcessor"
    /\ \E i \in 1..Len(result[1]) :
           result[1][i].payee = <<"E","-","T","R","A","N","S","F","E","R"," ","R","E","N","T">> /\ result[1][i].credit # None

\* closing_balance == opening_balance + sum(credit) - sum(debit)
Balanced(self, txs) ==
    /\ self.opening_balance # None
    /\ self.closing_balance # None
    /\ self.closing_balance[1] =
           self.opening_balance[1] + SumCredit(txs) - SumDebit(txs)

\* C2: for BMOMastercard, OldBMOMastercard and RBCMastercard,
\* post_process_transactions returns the list exactly when the closing balance
\* is the opening balance plus the credits minus the debits of the scanned
\* transactions; otherwise it raises and process returns nothing.
C2_CardReconciliation ==
    (processor # None /\ processor[1].cls \in CardClasses) =>
        /\ BetweenPages =>
               (post_process_transactions(processor[1], transactions).raised = None
                    <=> Balanced(processor[1], transactions))
        /\ BetweenPages =>
               LET done == post_process_transactions(processor[1], transactions)
               IN  done.raised = None => done.value = transactions
        /\ pc = "returned" =>
               result = Some(transactions) /\ Balanced(processor[1], transactions)
        /\ (pc = "failed" /\ error = Some("AssertionError: Balance mismatch")) =>
               result = None /\ ~Balanced(processor[1], transactions)

\* a card statement with a payment and a purchase has been returned
C2_Witness ==
    /\ pc = "returned"
    /\ processor[1].cls \in CardClasses
    /\ SumCredit(result[1]) > 0
    /\ SumDebit(result[1]) > 0

\* the 'Closing totals' line was scanned and both its totals are the sums
TotalsAgree(self, txs) ==
    /\ "closing_credit" \in DOMAIN self
    /\ self.closing_credit = Some(SumCredit(txs))
    /\ self.closing_debit = Some(SumDebit(txs))

\* C3: for BMO chequing, the list is returned exactly when a 'Closing totals'
\* line was scanned, the credits sum to its credit total and the debits sum to
\* its debit total; a mismatch in either, or no such line, is a failure.
C3_ChequingReconciliation ==
    (processor # None /\ processor[1].cls = "BMOChequingPDFProcessor") =>
        /\ BetweenPages =>
               (post_process_transactions(processor[1], transactions).raised = None
                    <=> TotalsAgree(processor[1], transactions))
        /\ pc = "returned" =>
               result = Some(transactions)
               /\ TotalsAgree(processor[1], transactions)
        /\ (pc = "failed" /\ page_number >= 1 /\ lines = <<>>
                /\ page_transactions = <<>>) =>
               result = None /\ ~TotalsAgree(processor[1], transactions)

\* a BMO chequing statement with a deposit and a withdrawal has been returned
C3_Witness ==
    /\ pc = "returned"
    /\ processor[1].cls = "BMOChequingPDFProcessor"
    /\ SumCredit(result[1]) > 0
    /\ SumDebit(result[1]) > 0

\* opening balance 50000, one transaction with credit 12000, one with debit 3000
CardScenario ==
    /\ processor # None
    /\ processor[1].cls \in CardClasses
    /\ processor[1].opening_balance = Some(50000)
    /\ Len(transactions) = 2
    /\ \E i, j \in 1..2 :
           /\ transactions[i].credit = Some(12000)
           /\ transactions[j].debit = Some(3000)

\* C4: in the card scenario (opening 50000, credit 12000, debit 3000)
\* reconciliation passes exactly when the declared closing balance is 59000
\* (= 50000 + 12000 - 3000) and raises for every other declared closing balance.
C4_ScenarioPassesAt59000 ==
    CardScenario =>
        /\ BetweenPages =>
               (post_process_transactions(processor[1], transactions).raised = None
                    <=> processor[1].closing_balance = Some(59000))
        /\ pc = "returned" => processor[1].closing_balance = Some(59000)

\* C4 as stated: reconciliation of the card scenario passes exactly when the
\* declared closing balance is 41000 (= 50000 - 12000 + 3000).
C4_ScenarioPassesAt41000 ==
    CardScenario =>
        /\ BetweenPages =>
               (post_process_transactions(processor[1], transactions).raised = None
                    <=> processor[1].closing_balance = Some(41000))
        /\ pc = "returned" => processor[1].closing_balance = Some(41000)

\* the card scenario has been reconciled and returned
C4_Witness ==
    CardScenario /\ pc = "returned" /\ result = Some(transactions)

\* process_page has logged that a line satisfied should_stop_processing_doc
DocumentStopped == "Document processing stopped" \in log

\* C5: once a line satisfying should_stop_processing_doc has been met inside the
\* table, no further transaction is produced, neither from a later line of that
\* page nor from a line of a later page.
C5_NothingAfterDocumentStop ==
    [][DocumentStopped =>
           Len(transactions') + Len(page_transactions')
               = Len(transactions) + Len(page_transactions)]_vars

\* the year, and the balances of a class that has them, were found on page 1
MetadataFound(self) ==
    /\ self.year # None
    /\ "opening_balance" \in DOMAIN self => self.opening_balance # None
    /\ "closing_balance" \in DOMAIN self => self.closing_balance # None

\* C6: process reaches the page loop (process_first_page has returned and no
\* page is scanned yet) only with the year and the opening and closing balances
\* found on page 1: when one is missing process_first_page fails and no page is
\* scanned.
C6_MetadataBeforeAnyPage ==
    (pc = "pages" /\ page_number = 0) => MetadataFound(processor[1])

\* C7: when process returns a list, the pending transaction buffer is empty; a
\* document that leaves a pending transaction unflushed does not return.
C7_NoPendingAtReturn ==
    (pc = "returned" /\ "pending_tx" \in DOMAIN processor[1]) =>
        processor[1].pending_tx = None

\* the reconciliation of the object's class holds of its transactions
Reconciled(self, txs) ==
    CASE self.cls = "BMOChequingPDFProcessor" -> TotalsAgree(self, txs)
      [] self.cls \in CardClasses -> Balanced(self, txs)
      [] self.cls = "RBCChequingPDFProcessor" ->
             /\ self.opening_balance # None
             /\ self.closing_balance # None
             /\ self.closing_balance[1] =
                    self.opening_balance[1] - SumCredit(txs) + SumDebit(txs)

\* C8: a failure ends process with no list returned and nothing scanned after
\* it, whatever line or page it arose at; a list is returned only by a run that
\* did not fail and whose reconciliation has passed.
C8_NoPartialResult ==
    /\ [](pc = "failed" => result = None /\ error # None)
    /\ [](error # None => pc = "failed")
    /\ [](result # None =>
              /\ pc = "returned"
              /\ result = Some(transactions)
              /\ Reconciled(processor[1], transactions))
    /\ [][pc # "failed"]_vars

\* a line inside the table of the second page made process fail after the
\* first page had produced transactions
C8_Witness ==
    /\ pc = "failed"
    /\ page_number = 2
    /\ lines # <<>>
    /\ transactions # <<>>
    /\ result = None

\* C9: the detector selects the first class, in the order OldBMOMastercard,
\* BMOMastercard, BMOChequing, RBCChequing, RBCMastercard, whose test passes on
\* the first page; a page with 'BMO', 'Statement Date' and 'Statement date'
\* gives the OldBMOMastercard class.
C9_FirstMatchingClass ==
    LET order == <<"OldBMOMastercardPDFProcessor", "BMOMastercardPDFProcessor",
                   "BMOChequingPDFProcessor", "RBCChequingPDFProcessor",
                   "RBCMastercardPDFProcessor">>
        hits == {i \in 1..5 : try_create_processor(order[i], first_page) # None}
    IN  pc # "detect" =>
            /\ IF hits = {} THEN processor = None
               ELSE /\ processor # None
                    /\ processor[1].cls = order[Min(hits)]
            /\ (/\ Contains(first_page, <<"B","M","O">>)
                /\ Contains(first_page, <<"S","t","a","t","e","m","e","n","t"," ","D","a","t","e">>)
                /\ Contains(first_page, <<"S","t","a","t","e","m","e","n","t"," ","d","a","t","e">>)) =>
                   /\ processor # None
                   /\ processor[1].cls = "OldBMOMastercardPDFProcessor"

\* the first page has both markers and the older class was selected
C9_Witness ==
    /\ pc # "detect"
    /\ Contains(first_page, <<"S","t","a","t","e","m","e","n","t"," ","D","a","t","e">>)
    /\ Contains(first_page, <<"S","t","a","t","e","m","e","n","t"," ","d","a","t","e">>)
    /\ processor # None
    /\ processor[1].cls = "OldBMOMastercardPDFProcessor"

\* no class's try_create_processor accepts the first page
Unrecognised ==
    \A i \in 1..Len(PROCESSOR_CLASSES) :
        try_create_processor(PROCESSOR_CLASSES[i], first_page) = None

\* C10: when no class accepts the first page, process fails with 'No idea what
\* this is' after printing the first page, and neither process_first_page nor
\* process_page runs.
C10_UnrecognisedDocument ==
    (pc # "detect" /\ Unrecognised) =>
        /\ pc = "failed"
        /\ error = Some("ValueError: No idea what this is")
        /\ stderr = first_page \o <<"\n">>
        /\ processor = None
        /\ page_number = 0
        /\ n_lines = 0
        /\ transactions = <<>>
        /\ result = None

\* a page with 'BMO' that no class accepts has been rejected and printed
C10_Witness ==
    /\ pc = "failed"
    /\ Unrecognised
    /\ Contains(first_page, <<"B","M","O">>)
    /\ stderr = first_page \o <<"\n">>

\* the match of the line's description column against the TX_PATTERN of the
\* object's class
RowMatch(self, line) ==
    CASE self.cls = "BMOChequingPDFProcessor" ->
             re_fullmatch(BMOChequing_TX_PATTERN, Slice(line, 0, 68))
      [] self.cls = "BMOMastercardPDFProcessor" ->
             re_fullmatch(BMOMastercard_TX_PATTERN, Slice(line, 0, 78))
      [] self.cls = "OldBMOMastercardPDFProcessor" ->
             re_fullmatch(OldBMOMastercard_TX_PATTERN, Slice(line, 0, 85))
      [] self.cls = "RBCChequingPDFProcessor" ->
             re_fullmatch(RBCChequing_TX_PATTERN, Slice(line, 0, 60))
      [] self.cls = "RBCMastercardPDFProcessor" ->
             re_match(RBCMastercard_TX_PATTERN, Slice(line, 0, 74))

\* the second loop of process_page is at a line that stops neither the page nor
\* the document
AtTableLine ==
    /\ pc = "scan"
    /\ ~should_stop_processing_doc(processor[1], lines[1]).value
    /\ ~should_stop_processing_page(processor[1], lines[1])

\* the number of transactions the scan has produced so far
Count == Len(transactions) + Len(page_transactions)

\* C11: in every variant, a line of the table whose description column does not
\* match the variant's TX_PATTERN is skipped: the step over it raises nothing,
\* produces no transaction and leaves the scan at the following line or at the
\* end of the page.
C11_UnparseableLineSkipped ==
    [][(AtTableLine /\ RowMatch(processor[1], lines[1]) = None) =>
           /\ pc' \in {"scan", "pages"}
           /\ error' = None
           /\ Count' = Count]_vars

\* the line is one of the known boilerplate lines of the object's class
Boilerplate(self, line) ==
    \/ /\ self.cls = "BMOChequingPDFProcessor"
       /\ Contains(line, <<"O","p","e","n","i","n","g"," ","b","a","l","a","n","c","e">>)
    \/ /\ self.cls = "RBCChequingPDFProcessor"
       /\ \/ Contains(line, <<"O","p","e","n","i","n","g"," ","B","a","l","a","n","c","e">>)
          \/ Contains(line, <<"N","o"," ","a","c","t","i","v","i","t","y"," ","f","o","r"," ","t","h","i","s"," ","p","e","r","i","o","d">>)

\* C12: the step of the scan over a boilerplate line ('Opening balance' for BMO
\* chequing, 'Opening Balance' and 'No activity for this period' for RBC
\* chequing) produces no transaction, raises nothing and stops nothing: no stop
\* is logged, and the scan is at the following line unless the page has ended.
C12_BoilerplateIsNoStop ==
    [][(pc = "scan" /\ Boilerplate(processor[1], lines[1])) =>
           /\ Count' = Count
           /\ error' = None
           /\ log' = log
           /\ pc' \in {"scan", "pages"}
           /\ pc' = "scan" <=> lines' # <<>>]_vars

\* the first loop of process_page ends the page at a line that is not the
\* header row, having met none
PageWithoutTable ==
    /\ pc = "seek"
    /\ pc' = "pages"
    /\ ~should_begin_processing_transaction(processor[1], lines[1])

\* C13: a page with no header row yields no transaction and raises nothing:
\* while the first loop of process_page runs, the object, the collected
\* transactions and the error stay as they are; when the page ends without a
\* header row the warning is logged and process is back in its loop over the
\* pages, where a further page can be read as after any other page.
C13_PageWithoutTable ==
    /\ [][pc = "seek" =>
              /\ processor' = processor
              /\ transactions' = transactions
              /\ page_transactions' = <<>> /\ page_transactions = <<>>
              /\ error' = None /\ result' = None
              /\ pc' \in {"seek", "scan", "pages"}]_vars
    /\ [][PageWithoutTable =>
              /\ "No transaction found on current page" \in log'
              /\ page_number' = page_number
              /\ lines' = None]_vars
    /\ []((pc = "pages" /\ page_number < MaxPages /\ n_lines < MaxLines) =>
              ENABLED NextPage)

\* the first page of a document had no header row, and the second page has
\* yielded a transaction
C13_Witness ==
    /\ pc = "scan"
    /\ page_number = 2
    /\ "No transaction found on current page" \in log
    /\ transactions = <<>>
    /\ page_transactions # <<>>

\* the second loop of process_page is at a line that stops the page
AtPageStop ==
    /\ pc = "scan"
    /\ ~should_stop_processing_doc(processor[1], lines[1]).value
    /\ should_stop_processing_page(processor[1], lines[1])

\* page_transactions after prepare_new_transaction left made
Kept(made) ==
    IF made.value # None THEN Append(page_transactions, made.value[1])
    ELSE page_transactions

\* C14: a line that stops the page ends process_page there: its transactions
\* are collected, the object stays as it is and no further line of the page is
\* read; a row followed by such a line is prepared with next_line = None; and
\* transactions are produced only in the second loop, which a page enters
\* only from its first loop at the header row.
C14_PageStop ==
    /\ [][AtPageStop =>
              /\ pc' = "pages"
              /\ lines' = None
              /\ transactions' = transactions \o page_transactions
              /\ page_transactions' = <<>>
              /\ processor' = processor
              /\ error' = None
              /\ "Page processing stopped" \in log']_vars
    /\ [][(pc = "scan" /\ pc' = "scan"
           /\ should_stop_processing_page(processor'[1], lines'[1])) =>
              /\ processor' =
                     Some(prepare_new_transaction(processor[1], lines[1], None).self)
              /\ page_transactions' =
                     Kept(prepare_new_transaction(processor[1], lines[1], None))]_vars
    /\ [][(pc' = "scan" /\ pc # "scan") =>
              /\ pc = "seek"
              /\ should_begin_processing_transaction(processor[1], lines[1])]_vars
    /\ [][Count' # Count => pc = "scan"]_vars
    /\ [][(pc = "pages" /\ pc' # "pages" /\ page_number' # page_number) =>
              pc' = "seek" /\ page_transactions' = <<>>]_vars

\* on the second page of a document whose first page was stopped, a row has
\* yielded a transaction and the line after it stops the page
C14_Witness ==
    /\ pc = "scan"
    /\ page_number = 2
    /\ "Page processing stopped" \in log
    /\ page_transactions # <<>>
    /\ should_stop_processing_page(processor[1], lines[1])

\* the second loop of process_page of an RBC Mastercard statement is at a row
\* that matches TX_PATTERN and whose payee is not one of the two exempt ones
AtReferencedRow ==
    /\ pc = "scan"
    /\ processor[1].cls = "RBCMastercardPDFProcessor"
    /\ ~should_stop_processing_doc(processor[1], lines[1]).value
    /\ RowMatch(processor[1], lines[1]) # None
    /\ re_match(RBCMastercard_PREMIUM,
                RBCMastercard_payee(Slice(lines[1], 0, 74),
                                    RowMatch(processor[1], lines[1]))) = None
    /\ re_match(RBCMastercard_PAYMENT,
                RBCMastercard_payee(Slice(lines[1], 0, 74),
                                    RowMatch(processor[1], lines[1]))) = None

NoReference == Some("ValueError: No transaction reference found")

\* C15: in an RBC Mastercard statement, the step over a row whose payee is not
\* exempt raises nothing only when a next line follows it that starts with 11
\* digits or more; the ValueError of a missing reference is raised only at
\* such a row, it ends process, and process returns no list after it.
C15_ReferenceRequired ==
    /\ [][(AtReferencedRow /\ pc' # "failed") =>
              /\ lines' # None
              /\ re_match(RBCMastercard_REFERENCE,
                          strip(Slice(lines'[1], 0, 76))) # None]_vars
    /\ [][(error = None /\ error' = NoReference) => AtReferencedRow]_vars
    /\ [](error = NoReference => pc = "failed" /\ result = None)
    /\ [][pc # "failed"]_vars

\* after a row with its reference line has yielded a transaction, a second row
\* without one has ended process
C15_Witness ==
    /\ pc = "failed"
    /\ error = NoReference
    /\ processor[1].cls = "RBCMastercardPDFProcessor"
    /\ page_transactions # <<>>
    /\ result = None

\* C16: the list process returns is the list of the transactions of the page
\* scans as they were collected: a scan appends each transaction after those
\* of the lines before it, process appends the transactions of a page after
\* those of the pages before it, and post_process_transactions returns the
\* collected list itself.
C16_EncounterOrder ==
    /\ [][page_transactions' # page_transactions =>
              \/ page_transactions' = <<>>
              \/ /\ pc = "scan"
                 /\ Len(page_transactions') = Len(page_transactions) + 1
                 /\ SubSeq(page_transactions', 1, Len(page_transactions))
                        = page_transactions
                 /\ Some(page_transactions'[Len(page_transactions')])
                        \in {prepare_new_transaction(processor[1], lines[1], n).value :
                                n \in {None, lines'}}]_vars
    /\ [][transactions' # transactions =>
              /\ pc = "scan"
              /\ transactions' \in
                     {transactions \o page_transactions,
                      transactions \o Kept(prepare_new_transaction(
                                               processor[1], lines[1], None))}]_vars
    /\ [][pc' = "returned" =>
              /\ transactions' = transactions
              /\ result' = Some(transactions)
              /\ post_process_transactions(processor[1], transactions).value
                     = transactions]_vars
    /\ [](pc = "returned" => result = Some(transactions))

\* process has returned two different transactions
C16_Witness ==
    /\ pc = "returned"
    /\ Len(result[1]) >= 2
    /\ result[1][1] # result[1][2]

\* the second loop of process_page of a BMO chequing statement of 2024 is at
\* the row GROCERY STORE PURCHASE, the first line after the header row that
\* names the columns Withdrawals($), Deposits($) and Balance($)
AtGroceryRow ==
    /\ pc = "scan"
    /\ first_page = BMOChequing_PAGE_FEBRUARY
    /\ processor[1].year = Some(2024)
    /\ lines[1] = BMOChequing_GROCERY_LINE
    /\ Count = 0

\* C18: the step over the row with 42.17 at columns 103-107 and 1,000.00 at
\* columns 134-141 produces exactly one transaction, of 5 January 2024, with
\* debit 4217, no credit, balance 100000 and payee GROCERY STORE PURCHASE.
C18_GroceryScenario ==
    [][AtGroceryRow =>
           /\ Len(transactions' \o page_transactions') = 1
           /\ (transactions' \o page_transactions')[1].tx_date = <<2024, 1, 5>>
           /\ (transactions' \o page_transactions')[1].debit = Some(4217)
           /\ (transactions' \o page_transactions')[1].credit = None
           /\ (transactions' \o page_transactions')[1].balance = Some(100000)
           /\ (transactions' \o page_transactions')[1].payee
                  = <<"G","R","O","C","E","R","Y"," ","S","T","O","R","E"," ","P","U","R","C","H","A","S","E">>]_vars

\* C19: in every variant, the payee of a transaction process holds or returns
\* has no two spaces in a row.
C19_PayeeHasNoDoubleSpace ==
    \A t \in Produced : ~Contains(t.payee, <<" "," ">>)

\* every amount column the object's class reads in the line holds whitespace
\* only
BlankAmount(self, line) ==
    CASE self.cls = "BMOChequingPDFProcessor" ->
             /\ strip(Slice(line, 70, 87)) = <<>>
             /\ strip(Slice(line, 90, 107)) = <<>>
             /\ strip(Slice(line, 109, 125)) = <<>>
      [] self.cls = "BMOMastercardPDFProcessor" ->
             strip(Slice(line, 78, 95)) = <<>>
      [] self.cls = "OldBMOMastercardPDFProcessor" ->
             strip(Slice(line, 118, 135)) = <<>>
      [] self.cls = "RBCChequingPDFProcessor" ->
             /\ strip(Slice(line, 68, 85)) = <<>>
             /\ strip(Slice(line, 88, 110)) = <<>>
      [] self.cls = "RBCMastercardPDFProcessor" ->
             strip(Slice(line, 76, 93)) = <<>>

\* C20: in every variant, an amount of 1,234.56 is read as 123456, and a row
\* whose amount columns hold whitespace only has its amounts taken as absent:
\* the step over it does not raise the ValueError of int() and produces no
\* transaction with an amount of zero.
C20_BlankAmountIsAbsent ==
    /\ [](\A t \in Produced : t.credit # Some(0) /\ t.debit # Some(0))
    /\ [](int(sanitize_amount(<<"1",",","2","3","4",".","5","6">>)) = Some(123456))
    /\ [][(AtTableLine /\ RowMatch(processor[1], lines[1]) # None
           /\ BlankAmount(processor[1], lines[1])) =>
              error' # Some("ValueError: invalid literal for int()")]_vars

\* the description column of the line, as the object's class slices it
RowDesc(self, line) ==
    CASE self.cls = "BMOChequingPDFProcessor" -> Slice(line, 0, 68)
      [] self.cls = "BMOMastercardPDFProcessor" -> Slice(line, 0, 78)
      [] self.cls = "OldBMOMastercardPDFProcessor" -> Slice(line, 0, 85)
      [] self.cls = "RBCChequingPDFProcessor" -> Slice(line, 0, 60)
      [] self.cls = "RBCMastercardPDFProcessor" -> Slice(line, 0, 74)

\* the month tokens of a row: the groups of the match m on desc that the
\* object's class looks up in MONTHS
MonthTokens(self, desc, m) ==
    IF self.cls = "BMOChequingPDFProcessor" THEN {group(desc, m, 1)}
    ELSE IF self.cls = "RBCChequingPDFProcessor" THEN {group(desc, m, 2)}
    ELSE {group(desc, m, 1), group(desc, m, 3)}

\* the abbreviations, written in every mix of upper and lower case
UpperOf(c) == CHOOSE u \in Upper : LowerOf[u] = c
Cased(abbr) ==
    {[i \in 1..3 |-> IF i \in caps THEN UpperOf(abbr[i]) ELSE abbr[i]] :
        caps \in SUBSET (1..3)}
Abbreviations == {MONTHS[k] : k \in 1..12}

\* the row matched as m has a month token that is no abbreviation
UnknownMonthIn(self, desc, m) ==
    /\ m # None
    /\ \E t \in MonthTokens(self, desc, m) : lower(t) \notin Abbreviations
UnknownMonth(self, line) ==
    UnknownMonthIn(self, RowDesc(self, line), RowMatch(self, line))

\* the transaction produced last
Newest ==
    IF page_transactions # <<>> THEN page_transactions[Len(page_transactions)]
    ELSE transactions[Len(transactions)]

\* the month number of the row's first month token is k
FirstTokenIs(self, desc, m, k) ==
    m # None /\ lower(group(desc, m, 1)) = MONTHS[k]

\* C21: each of the twelve abbreviations, in any mix of upper and lower case,
\* is looked up as its month number; a transaction made from a row of a BMO
\* chequing or card statement is dated in the month of the row's token; and a
\* row with a month token that is no abbreviation produces no transaction.
C21_MonthAbbreviations ==
    /\ [](\A k \in 1..12 : \A t \in Cased(MONTHS[k]) :
              index(MONTHS, lower(t)) = Some(k - 1))
    /\ [][(AtTableLine /\ UnknownMonth(processor[1], lines[1])) =>
              /\ Count' = Count
              /\ processor' = processor]_vars
    /\ [][(AtTableLine /\ processor[1].cls # "RBCChequingPDFProcessor"
           /\ Count' = Count + 1) =>
              \E k \in 1..12 :
                  /\ FirstTokenIs(processor[1], RowDesc(processor[1], lines[1]),
                                  RowMatch(processor[1], lines[1]), k)
                  /\ Newest'.tx_date[2] = k]_vars

\* a row of an unknown month has failed the call, and a row of December has
\* produced a transaction of month 12
C21_Witness ==
    /\ pc = "failed"
    /\ error = Some("ValueError: not in list")
    /\ \E t \in Produced : t.tx_date[2] = 12

\* closing_balance == opening_balance - sum(credit) + sum(debit)
Flipped(self, txs) ==
    /\ self.opening_balance # None
    /\ self.closing_balance # None
    /\ self.closing_balance[1] =
           self.opening_balance[1] - SumCredit(txs) + SumDebit(txs)

\* C22: for RBC chequing, post_process_transactions returns the list exactly
\* when the closing balance is the opening balance minus the credits plus the
\* debits of the scanned transactions; process returns that list then, and
\* with any other closing balance it raises and returns nothing.
C22_FlippedReconciliation ==
    (processor # None /\ processor[1].cls = "RBCChequingPDFProcessor") =>
        /\ BetweenPages =>
               (post_process_transactions(processor[1], transactions).raised = None
                    <=> Flipped(processor[1], transactions))
        /\ pc = "returned" =>
               result = Some(transactions) /\ Flipped(processor[1], transactions)
        /\ (pc = "failed" /\ error = Some("AssertionError: Balance mismatch")) =>
               result = None /\ ~Flipped(processor[1], transactions)

\* an RBC chequing statement with a withdrawal and a deposit has been returned
C22_Witness ==
    /\ pc = "returned"
    /\ processor[1].cls = "RBCChequingPDFProcessor"
    /\ SumCredit(result[1]) > 0
    /\ SumDebit(result[1]) > 0
    /\ processor[1].closing_balance # processor[1].opening_balance

\* the line has nothing in the withdrawals column and nothing in the deposits
\* column of an RBC chequing table
BothBlank(line) ==
    /\ strip(Slice(line, 68, 85)) = <<>>
    /\ strip(Slice(line, 88, 110)) = <<>>

\* the scan of an RBC chequing statement is at a line of the table
AtChequingLine ==
    AtTableLine /\ processor[1].cls = "RBCChequingPDFProcessor"

\* the description of an RBC chequing line matched as m: the text after its
\* date, or the whole column where it has no date
Described(desc, m) ==
    IF m # None THEN strip(group(desc, m, 3)) ELSE strip(desc)
Description(line) ==
    Described(Slice(line, 0, 60),
              re_fullmatch(RBCChequing_TX_PATTERN, Slice(line, 0, 60)))

\* the amounts of an RBC chequing line, as the withdrawals column and the
\* deposits column give them
LineCredit(line) ==
    IF strip(Slice(line, 68, 85)) # <<>>
    THEN int(sanitize_amount(Slice(line, 68, 85))) ELSE None
LineDebit(line) ==
    IF strip(Slice(line, 68, 85)) # <<>> THEN None
    ELSE int(sanitize_amount(Slice(line, 88, 110)))

\* C23: in RBC chequing, the step over a table line with both amount columns
\* blank produces no transaction, raises nothing and leaves a pending
\* transaction that the line began or that it extended by its description; the
\* step over a line with an amount, while a transaction is pending, produces
\* one transaction whose payee is the pending text followed by the line's
\* description and whose credit and debit are the line's, and leaves nothing
\* pending.
C23_PendingTransaction ==
    /\ [][(AtChequingLine /\ BothBlank(lines[1])) =>
              /\ Count' = Count
              /\ error' = None
              /\ processor'[1].pending_tx # None
              /\ processor'[1].pending_tx[1].payee =
                     IF processor[1].pending_tx = None
                     THEN Description(lines[1])
                     ELSE processor[1].pending_tx[1].payee \o <<" ">>
                              \o Description(lines[1])]_vars
    /\ [][(AtChequingLine /\ ~BothBlank(lines[1])
           /\ processor[1].pending_tx # None) =>
              /\ Count' = Count + 1
              /\ Newest'.payee =
                     sanitize_string(processor[1].pending_tx[1].payee
                                         \o <<" ">> \o Description(lines[1]))
              /\ Newest'.credit = LineCredit(lines[1])
              /\ Newest'.debit = LineDebit(lines[1])
              /\ processor'[1].pending_tx = None]_vars

\* the scan of a BMO chequing or of a BMO Mastercard statement is at a line
\* of the table
AtMergingLine ==
    /\ AtTableLine
    /\ processor[1].cls \in {"BMOChequingPDFProcessor",
                             "BMOMastercardPDFProcessor"}

\* the line that follows the line of the step on its page, or None
FollowingLine == IF pc' = "scan" THEN Some(lines'[1]) ELSE None

\* the line has all its amount columns blank, a description column that is not
\* blank, and a description column that is no row
Continues(self, line) ==
    /\ RowMatch(self, line) = None
    /\ strip(RowDesc(self, line)) # <<>>
    /\ IF self.cls = "BMOChequingPDFProcessor"
       THEN /\ strip(Slice(line, 70, 87)) = <<>>
            /\ strip(Slice(line, 90, 107)) = <<>>
            /\ strip(Slice(line, 109, 125)) = <<>>
       ELSE strip(Slice(line, 78, 95)) = <<>>

\* the description of a row of the two classes, matched as m on desc
RowText(self, desc, m) ==
    IF self.cls = "BMOChequingPDFProcessor" THEN strip(group(desc, m, 3))
    ELSE strip(group(desc, m, 5))

\* the payee of the row's transaction: its description, with that of the line
\* below where merged holds, as the class leaves it
PayeeOf(self, text, merged, below) ==
    LET note == IF merged THEN text \o <<" ">> \o strip(RowDesc(self, below[1]))
                ELSE text
    IN  IF self.cls = "BMOChequingPDFProcessor" THEN note
        ELSE sanitize_string(note)
RowPayee(self, line, merged, below) ==
    PayeeOf(self, RowText(self, RowDesc(self, line), RowMatch(self, line)),
            merged, below)

\* C24 as stated: in BMO chequing and BMO Mastercard, the transaction of a row
\* has the description of the line below appended exactly when that line has
\* its amount columns blank, a description and no date prefix; a line that is
\* no row produces no transaction.
C24_ContinuationMerged ==
    /\ [][(AtMergingLine /\ Count' = Count + 1) =>
              Newest'.payee =
                  RowPayee(processor[1], lines[1],
                           /\ FollowingLine # None
                           /\ Continues(processor[1], FollowingLine[1]),
                           FollowingLine)]_vars
    /\ [][(AtMergingLine /\ RowMatch(processor[1], lines[1]) = None) =>
              Count' = Count]_vars

\* C24, amended: the description of the line below is appended exactly when
\* that line does not stop the page, has its amount columns blank, has a
\* description and has no date prefix; a line that is no row produces no
\* transaction.
C24_ContinuationMergedUnlessPageStop ==
    /\ [][(AtMergingLine /\ Count' = Count + 1) =>
              Newest'.payee =
                  RowPayee(processor[1], lines[1],
                           /\ FollowingLine # None
                           /\ ~should_stop_processing_page(processor[1],
                                                           FollowingLine[1])
                           /\ Continues(processor[1], FollowingLine[1]),
                           FollowingLine)]_vars
    /\ [][(AtMergingLine /\ RowMatch(processor[1], lines[1]) = None) =>
              Count' = Count]_vars

\* a BMO chequing transaction carries the text of the line below its row, and
\* the scan has come to the line that ends the page
C24_Witness ==
    /\ \E t \in Produced : t.payee = <<"P","A","Y"," ","R","E","F"," ","1","2","3">>
    /\ pc = "scan"
    /\ lines[1] = BMOChequing_CONTINUED_LINE

BMOCardClasses ==
    {"BMOMastercardPDFProcessor", "OldBMOMastercardPDFProcessor"}

\* the amount column of a row of the two BMO Mastercard classes
CardAmount(self, line) ==
    IF self.cls = "BMOMastercardPDFProcessor" THEN Slice(line, 78, 95)
    ELSE Slice(line, 118, 135)

\* the number an amount column holds, the marker CR set aside
Unmarked(amount) ==
    int(Replace(sanitize_amount(amount), <<"C","R">>))

\* a line of the page declares the opening balance, or the closing balance,
\* and carries the marker CR
DeclaresOpeningCR(page) ==
    \E i \in 1..Len(split(page)) :
        /\ Contains(split(page)[i], <<"P","r","e","v","i","o","u","s">>)
        /\ Contains(split(page)[i], <<"C","R">>)
DeclaresClosingCR(page) ==
    \E i \in 1..Len(split(page)) :
        /\ \/ Contains(split(page)[i], <<"T","o","t","a","l"," ","b","a","l","a","n","c","e">>)
           \/ Contains(split(page)[i], <<"N","e","w"," ","B","a","l","a","n","c","e">>)
        /\ Contains(split(page)[i], <<"C","R">>)

\* process_first_page has returned
FirstPageRead == pc \in {"pages", "seek", "scan", "returned"}

\* C25: in both BMO Mastercard classes, a row whose amount carries CR gives a
\* transaction with that amount as debit and no credit, a row whose amount
\* does not gives it as credit with no debit, and an opening or closing balance
\* declared with CR on the first page is read as a negative number.
C25_CreditMarker ==
    /\ [][(AtTableLine /\ processor[1].cls \in BMOCardClasses
           /\ Count' = Count + 1) =>
              IF Contains(CardAmount(processor[1], lines[1]), <<"C","R">>)
              THEN /\ Newest'.credit = None
                   /\ Newest'.debit = Unmarked(CardAmount(processor[1], lines[1]))
              ELSE /\ Newest'.debit = None
                   /\ Newest'.credit = Unmarked(CardAmount(processor[1], lines[1]))]_vars
    /\ []((processor # None /\ processor[1].cls \in BMOCardClasses
           /\ FirstPageRead) =>
              /\ DeclaresOpeningCR(first_page) =>
                     processor[1].opening_balance[1] < 0
              /\ DeclaresClosingCR(first_page) =>
                     processor[1].closing_balance[1] < 0)

\* the attributes that hold the metadata of a statement
Metadata == {"year", "opening_balance", "closing_balance"}

\* every metadata attribute that before holds, after holds unchanged
Retains(before, after) ==
    \A f \in Metadata \cap DOMAIN before :
        before[f] # None => after[f] = before[f]

\* the object after the loop of process_first_page has read the lines ls
AfterFirstPageLines(self, ls) ==
    CASE self.cls = "BMOChequingPDFProcessor" ->
             BMOChequing_first_page_loop(self, ls).self
      [] self.cls = "BMOMastercardPDFProcessor" ->
             BMOMastercard_first_page_loop(self, ls).self
      [] self.cls = "OldBMOMastercardPDFProcessor" ->
             OldBMOMastercard_first_page_loop(self, ls).self
      [] self.cls = "RBCChequingPDFProcessor" ->
             RBCChequing_first_page_loop(self, ls).self
      [] self.cls = "RBCMastercardPDFProcessor" ->
             RBCMastercard_first_page_loop(self, ls).self

\* no line of the first page changes what an earlier line of it resolved
FirstPageWritesOnce(self, ls) ==
    \A j \in 1..Len(ls) : \A k \in 1..j :
        Retains(AfterFirstPageLines(self, SubSeq(ls, 1, k)),
                AfterFirstPageLines(self, SubSeq(ls, 1, j)))

\* C26: the year, the opening balance and the closing balance are written
\* once: a value that a line of the first page resolved, a balance of 0
\* included, is left as it is by every later line of the first page and by
\* every step over the pages, a 'Total for card number' line included.
C26_MetadataWrittenOnce ==
    /\ []((pc = "first_page" /\ processor # None) =>
              FirstPageWritesOnce(processor[1], split(first_page)))
    /\ [][(pc \in {"pages", "seek", "scan"} /\ processor' # None) =>
              Retains(processor[1], processor'[1])]_vars

\* the date of an RBC chequing line whose description column desc matched as m
DateIn(self, desc, m) ==
    date(self.year[1], index(MONTHS, lower(group(desc, m, 2)))[1] + 1,
         int(group(desc, m, 1))[1])
LineDate(self, line) ==
    DateIn(self, Slice(line, 0, 60),
           re_fullmatch(RBCChequing_TX_PATTERN, Slice(line, 0, 60)))

\* the line of the step carries a date token
Dated == RowMatch(processor[1], lines[1]) # None

\* C27: in RBC chequing, a line that carries a date and contributes to a
\* transaction, emitted by the step over the line or left pending by it, gives
\* that transaction its date; a transaction made of one line that carries no
\* date is dated at the last transaction date.
C27_LineDateWins ==
    /\ [][(AtChequingLine /\ Dated /\ Count' = Count + 1) =>
              Newest'.tx_date = LineDate(processor[1], lines[1])[1]]_vars
    /\ [][(AtChequingLine /\ Dated /\ Count' = Count /\ error' = None
           /\ processor'[1].pending_tx # None) =>
              processor'[1].pending_tx[1].tx_date =
                  LineDate(processor[1], lines[1])[1]]_vars
    /\ [][(AtChequingLine /\ ~Dated /\ Count' = Count + 1
           /\ processor[1].pending_tx = None) =>
              Some(Newest'.tx_date) = processor[1].last_transaction_date]_vars

============================================================================
